---- MODULE Spec2Model ----
(***************************************************************************)
(* Model of extractr: the URL validator, the template validator with its   *)
(* regex safety check, and the extraction orchestrator extractData /       *)
(* extractWithBrowser / extractPage with retries, cancellation, the        *)
(* overall-timeout budget and pagination, the function extractPage runs in *)
(* the page, and the CSV formatter's escapeCsv.                            *)
(*                                                                         *)
(* Strings are sequences of tokens (a token is one character, or a word    *)
(* that the code never looks inside).  A JavaScript value is a record      *)
(* [t, n, s]: its type tag, its number and its string.                     *)
(***************************************************************************)
EXTENDS Integers, Sequences, FiniteSets, TLC

VARIABLES
    url,          \* extractData argument: the url value
    template,     \* extractData argument: the template
    maxRetriesOpt,\* options.maxRetries (a sequence: <<>> is undefined, <<n>> is n)
    hasCallback,  \* options.onPageExtracted is given
    aborted,      \* options.signal.aborted
    overBudget,   \* Date.now() - startTime > DEFAULTS.OVERALL_TIMEOUT_MS
    pc,           \* position of extractData / extractWithBrowser
    attempt,      \* loop variable of the retry loop
    browser,      \* the attempt's browser: "null", "open", "closed"
    page,         \* the attempt's page: "none", "open", "closed"
    listener,     \* abortHandler is registered on the signal
    lastError,    \* extractData's lastError
    pending,      \* the error in flight to the catch block, or the completion
                  \* (return / throw / continue) waiting for the finally block
    allData,      \* extractWithBrowser's allData
    pageCount,    \* extractWithBrowser's pageCount
    outcome,      \* "running", "returned", "raised"
    result,       \* the list extractData returned
    thrown,       \* the error extractData raised
    launched,     \* number of chromium.launch calls that gave a browser
    closed,       \* number of browser.close calls made
    navigations,  \* number of page.goto calls started
    evaluations,  \* number of page.evaluate calls started in this attempt
    cbLog,        \* the calls made to options.onPageExtracted in this attempt
    delays,       \* the back-off delays started, in ms
    abortedAt,    \* the position at which the abort signal fired ("" if not)
    hasNext,      \* extractWithBrowser's hasNext: what page.$ gave for the next
                  \* control in the current pagination step
    containers,   \* evaluation context: the elements the container selector matched
    results,      \* evaluation context: the records pushed so far
    item,         \* evaluation context: the record being built
    containerIdx, \* evaluation context: position of containers.forEach
    fieldIdx,     \* evaluation context: position of fields.forEach
    enginePc,     \* evaluation context: "idle", "containers", "fields", "returned"
    previous,     \* evaluation context: <<the records the evaluation returned
                  \* before it was run again on the same document>>, else <<>>
    call,         \* a call of an exported function on its own: [fn, arg]
    ret           \* <<the value the call returned>>, <<>> before it returns

vars == <<url, template, maxRetriesOpt, hasCallback, aborted, overBudget, pc,
          attempt, browser, page, listener, lastError, pending, allData,
          pageCount, outcome, result, thrown, launched, closed, navigations,
          evaluations, cbLog, delays, abortedAt, hasNext,
          containers, results, item, containerIdx, fieldIdx, enginePc,
          previous, call, ret>>

(***************************************************************************)
(* Bounds of the model.                                                    *)
(***************************************************************************)
MaxRetriesBound == 2
MaxPagesBound == 2
MaxItems == 1

(***************************************************************************)
(* JavaScript values.                                                      *)
(***************************************************************************)
Undefined == [t |-> "undefined", n |-> 0, s |-> <<>>]
JsNull == [t |-> "null", n |-> 0, s |-> <<>>]
Num(k) == [t |-> "number", n |-> k, s |-> <<>>]
Str(x) == [t |-> "string", n |-> 0, s |-> x]
Bool(b) == [t |-> "boolean", n |-> IF b THEN 1 ELSE 0, s |-> <<>>]

Truthy(v) ==
    CASE v.t = "undefined" -> FALSE
      [] v.t = "null" -> FALSE
      [] v.t = "number" -> v.n # 0 \/ (Len(v.s) > 0 /\ v.s # <<"NaN">>)
      [] v.t = "string" -> Len(v.s) > 0
      [] v.t = "boolean" -> v.n = 1
      [] OTHER -> TRUE

NoArray == [t |-> "undefined", items |-> <<>>]
Arr(xs) == [t |-> "array", items |-> xs]

(***************************************************************************)
(* String helpers on token sequences.                                      *)
(***************************************************************************)
IsSpace(c) == c \in {" ", "\t", "\n"}

RECURSIVE TrimLeft(_)
TrimLeft(s) ==
    IF Len(s) > 0 /\ IsSpace(Head(s)) THEN TrimLeft(Tail(s)) ELSE s

RECURSIVE TrimRight(_)
TrimRight(s) ==
    IF Len(s) > 0 /\ IsSpace(s[Len(s)])
    THEN TrimRight(SubSeq(s, 1, Len(s) - 1))
    ELSE s

\* the string is left as it is
Trim_KeepMut(s) == s

Trim(s) == TrimRight(TrimLeft(s))

Includes(s, tok) == \E i \in 1..Len(s) : s[i] = tok


(***************************************************************************)
(* validateUrl (extractor.ts).  A url string is a sequence of tokens: a    *)
(* scheme token, host tokens, then path tokens.  new URL() is the host's   *)
(* parser: it rejects an empty host and a host holding a space or a bare   *)
(* colon, lower-cases scheme and host, and gives the empty path as "/".    *)
(***************************************************************************)
SchemeTokens == {"http://", "https://", "HTTP://", "HTTPS://"}
PathTokens == {"/", "path", "?q=test"}

LowerTok(c) ==
    CASE c = "HTTP://" -> "http://"
      [] c = "HTTPS://" -> "https://"
      [] c = "Example.com" -> "example.com"
      [] OTHER -> c

RECURSIVE HostLen(_)
HostLen(s) ==
    IF Len(s) = 0 \/ Head(s) \in PathTokens THEN 0 ELSE 1 + HostLen(Tail(s))

ParseURL(s) ==
    LET rest == Tail(s)
        hl == HostLen(rest)
        host == SubSeq(rest, 1, hl)
        path == SubSeq(rest, hl + 1, Len(rest))
        bad == hl = 0 \/ \E i \in 1..hl : host[i] \in {" ", ":", "\t"}
    IN  [ok |-> ~bad,
         hostname |-> IF bad THEN <<>> ELSE [i \in 1..hl |-> LowerTok(host[i])],
         href |-> IF bad THEN <<>>
                  ELSE <<LowerTok(Head(s))>> \o [i \in 1..hl |-> LowerTok(host[i])]
                       \o (IF Len(path) = 0 THEN <<"/">> ELSE path)]

validateUrl(u) ==
    IF ~Truthy(u) \/ u.t # "string"
    THEN [valid |-> FALSE, normalized |-> <<>>,
          error |-> <<"URL must be a ", "non-", "empty", " string">>]
    ELSE LET trimmed == Trim(u.s) IN
         IF Len(trimmed) = 0
         THEN [valid |-> FALSE, normalized |-> <<>>,
               error |-> <<"URL cannot be ", "empty">>]
         ELSE LET normalized == IF Head(trimmed) \in SchemeTokens
                                THEN trimmed
                                ELSE <<"https://">> \o trimmed
                  parsed == ParseURL(normalized)
              IN  IF ~parsed.ok
                  THEN [valid |-> FALSE, normalized |-> <<>>,
                        error |-> <<"Invalid URL", " format: ", "Invalid URL">>]
                  ELSE IF Len(parsed.hostname) < 1
                  THEN [valid |-> FALSE, normalized |-> <<>>,
                        error |-> <<"URL must have a valid hostname">>]
                  ELSE [valid |-> TRUE, normalized |-> parsed.href, error |-> <<>>]

(***************************************************************************)
(* Errors.  An error is a record: isEE says it is an ExtractionError, code *)
(* its kind, msg its message, recoverable its flag, attempts the attempt   *)
(* count of its context (0 when the context has none), errors the          *)
(* validation errors of its context.                                       *)
(***************************************************************************)
NoError ==
    [isEE |-> FALSE, code |-> "null", msg |-> <<>>, recoverable |-> FALSE,
     attempts |-> 0, errors |-> <<>>]

\* new ExtractionError(message, code, context, recoverable = false)
ExtractionError(message, code, recoverable) ==
    [isEE |-> TRUE, code |-> code, msg |-> message, recoverable |-> recoverable,
     attempts |-> 0, errors |-> <<>>]

\* an error that is no ExtractionError: a provider error, a TypeError, new Error()
RawError(message) ==
    [isEE |-> FALSE, code |-> "Error", msg |-> message, recoverable |-> FALSE,
     attempts |-> 0, errors |-> <<>>]

RETRYABLE_ERRORS ==
    {"net::ERR_CONNECTION_RESET", "net::ERR_CONNECTION_REFUSED",
     "net::ERR_NAME_NOT_RESOLVED", "net::ERR_TIMED_OUT",
     "net::ERR_CONNECTION_TIMED_OUT", "Navigation timeout", "Timeout",
     "ECONNRESET", "ETIMEDOUT"}

isRetryableError(message) ==
    \E pattern \in RETRYABLE_ERRORS : Includes(message, pattern)

MAX_RETRIES == 3
RETRY_DELAY_MS == 1000
MAX_PAGES == 1
REGEX_MAX_LENGTH == 500

(***************************************************************************)
(* Regex safety (validator.ts).  A pattern is a sequence of characters.    *)
(***************************************************************************)
Quantifiers == {"*", "+", "?"}

\* new RegExp(pattern) succeeds: the host engine's syntax check, as far as
\* groups, classes, escapes and quantifiers go.  The pattern is read from
\* left to right; st is the reader's state after the characters before lo:
\* ok (no error so far), depth (groups open), inClass (inside [ ]) and
\* escaped (the character follows a backslash).  The range lo..hi is read
\* in two halves, the first before the second.
RECURSIVE Compiles(_, _, _, _)
Compiles(p, lo, hi, st) ==
    IF lo > hi THEN st
    ELSE IF lo < hi
    THEN CHOOSE end \in {Compiles(p, (lo + hi) \div 2 + 1, hi, half) :
                            half \in {Compiles(p, lo, (lo + hi) \div 2, st)}} : TRUE
    ELSE IF ~st.ok THEN st
    ELSE IF st.escaped THEN [st EXCEPT !.escaped = FALSE]
    ELSE IF p[lo] = "\\" THEN [st EXCEPT !.ok = lo + 1 <= Len(p), !.escaped = TRUE]
    ELSE IF st.inClass THEN [st EXCEPT !.inClass = p[lo] # "]"]
    ELSE IF p[lo] = "[" THEN [st EXCEPT !.inClass = TRUE]
    ELSE IF p[lo] = "(" THEN [st EXCEPT !.depth = @ + 1]
    ELSE IF p[lo] = ")" THEN [st EXCEPT !.ok = st.depth > 0, !.depth = @ - 1]
    ELSE IF p[lo] \in Quantifiers
    THEN [st EXCEPT !.ok =
            /\ lo > 1
            /\ p[lo - 1] \notin {"(", "|"}
            /\ (p[lo - 1] \in Quantifiers /\ (lo < 3 \/ p[lo - 2] # "\\"))
                   => (p[lo] = "?" /\ (lo < 3 \/ p[lo - 2] \notin Quantifiers))]
    ELSE st

RegExpCompiles(p) ==
    Compiles(p, 1, Len(p),
             [ok |-> TRUE, depth |-> 0, inClass |-> FALSE, escaped |-> FALSE])
        \in {[ok |-> TRUE, depth |-> 0, inClass |-> FALSE, escaped |-> FALSE]}

\* p holds the characters of lit at position i
MatchAt(p, i, lit) ==
    i + Len(lit) - 1 <= Len(p) /\ \A k \in 1..Len(lit) : p[i + k - 1] = lit[k]

NoClose(p, a, b) == \A k \in a..b : p[k] # ")"

\* /\([^)]*Q\)[^)]*Q/ for the quantifier character q
NestedQuantifier(p, q) ==
    \E i \in {x \in 1..Len(p) : p[x] = "("} :
        \E j \in {y \in (i + 1)..Len(p) : MatchAt(p, y, <<q, ")">>)} :
            /\ NoClose(p, i + 1, j - 1)
            /\ \E k \in {z \in (j + 2)..Len(p) : p[z] = q} : NoClose(p, j + 2, k - 1)

\* the dangerousPatterns catalogue of validateRegexPattern
Dangerous(p) ==
    \/ \E i \in 1..Len(p) : MatchAt(p, i, <<"(", ".", "*", ")", "+">>)
    \/ \E i \in 1..Len(p) : MatchAt(p, i, <<"(", ".", "+", ")", "+">>)
    \/ NestedQuantifier(p, "+")
    \/ NestedQuantifier(p, "*")
    \/ \E i \in {x \in 1..Len(p) : MatchAt(p, x, <<"(", "[">>)} :
          \E j \in {y \in (i + 2)..Len(p) : MatchAt(p, y, <<"]", "+", ")", "+">>)} :
              \A k \in (i + 2)..(j - 1) : p[k] # "\n"

validateRegexPattern(pattern, path) ==
    IF Len(pattern) > REGEX_MAX_LENGTH
    THEN << <<"Regex pattern exceeds maximum length", path>> >>
    ELSE (IF Dangerous(pattern)
          THEN << <<"Regex pattern contains potentially dangerous pattern", path>> >>
          ELSE <<>>)
         \o (IF RegExpCompiles(pattern)
             THEN <<>>
             ELSE << <<"Regex pattern is invalid", path>> >>)

\* a pattern of REGEX_MAX_LENGTH characters is refused too
isRegexSafe_CapMut(pattern) ==
    IF Len(pattern) >= REGEX_MAX_LENGTH THEN FALSE
    ELSE IF RegExpCompiles(pattern)
         THEN Len(validateRegexPattern(pattern, <<>>)) = 0
         ELSE FALSE

isRegexSafe(pattern) ==
    IF Len(pattern) > REGEX_MAX_LENGTH THEN FALSE
    ELSE IF RegExpCompiles(pattern)
         THEN Len(validateRegexPattern(pattern, <<>>)) = 0
         ELSE FALSE

(***************************************************************************)
(* validateTemplate (validator.ts).  The result is [threw, errors]: threw  *)
(* says the call raised a TypeError instead of returning; errors is the    *)
(* list it returns, each error a pair <<message, path>>.                   *)
(*                                                                         *)
(* A template is [kind, name, container, fields, pagination, options];     *)
(* fields, transforms and nested are [t, items] with t one of "undefined", *)
(* "null", "array", "other" (a value that is no list); a field is [kind,   *)
(* name, selector, type, transforms, nested, fallback]; a transform is     *)
(* [kind, type, params].                                                   *)
(***************************************************************************)
FIELD_TYPES ==
    {<<"text">>, <<"number">>, <<"currency">>, <<"date">>, <<"boolean">>,
     <<"list">>, <<"nested">>, <<"html">>, <<"url">>}

TRANSFORM_TYPES ==
    {<<"trim">>, <<"lowercase">>, <<"uppercase">>, <<"replace">>, <<"regex">>,
     <<"split">>, <<"slice">>, <<"parseInt">>, <<"parseFloat">>}

TRANSFORMS_REQUIRING_PATTERN == {<<"replace">>, <<"regex">>}
TRANSFORMS_REQUIRING_SEPARATOR == {<<"split">>}

Returned(errs) == [threw |-> FALSE, errors |-> errs]
Threw == [threw |-> TRUE, errors |-> <<>>]

\* `${x}` of a value
Stringify(v) ==
    CASE v.t = "string" -> v.s
      [] v.t = "number" -> <<ToString(v.n)>>
      [] OTHER -> <<v.t>>

ErrIf(cond, message, path) == IF cond THEN << <<message, path>> >> ELSE <<>>

validateTransform(transform, idx, fieldPath) ==
    LET transformPath == fieldPath \o <<".transforms[", ToString(idx), "]">>
        params == transform.params
        type == transform.type
    IN
    IF transform.kind = "null" THEN Threw
    ELSE IF ~Truthy(type) \/ type.t # "string"
    THEN Returned(<< <<"Transform must have a type (string)", transformPath>> >>)
    ELSE IF type.s \notin TRANSFORM_TYPES
    THEN Returned(<< <<"Transform has invalid type", transformPath>> >>)
    ELSE Returned(
        (IF type.s \in TRANSFORMS_REQUIRING_PATTERN
         THEN IF ~params.present \/ ~Truthy(params.pattern) \/ params.pattern.t # "string"
              THEN << <<"Transform requires params.pattern (string)", transformPath>> >>
              ELSE validateRegexPattern(params.pattern.s, transformPath)
         ELSE <<>>)
        \o ErrIf(/\ type.s \in TRANSFORMS_REQUIRING_SEPARATOR
                 /\ params.present
                 /\ params.separator.t # "undefined"
                 /\ params.separator.t # "string",
                 "Transform params.separator must be a string", transformPath)
        \o ErrIf(/\ type.s = <<"slice">> /\ params.present
                 /\ params.start.t # "undefined" /\ params.start.t # "number",
                 "Transform slice params.start must be a number", transformPath)
        \o ErrIf(/\ type.s = <<"slice">> /\ params.present
                 /\ params.end.t # "undefined" /\ params.end.t # "number",
                 "Transform slice params.end must be a number", transformPath)
        \o ErrIf(/\ type.s = <<"regex">> /\ params.present
                 /\ params.group.t # "undefined"
                 /\ (params.group.t # "number" \/ params.group.n < 0),
                 "Transform regex params.group must be a non-negative number",
                 transformPath))

\* items.forEach((x, i) => errors.push(...validateTransform(x, i, path)))
RECURSIVE validateTransforms(_, _, _)
validateTransforms(items, i, fieldPath) ==
    IF i > Len(items) THEN Returned(<<>>)
    ELSE LET one == validateTransform(items[i], i - 1, fieldPath) IN
         IF one.threw THEN Threw
         ELSE LET more == validateTransforms(items, i + 1, fieldPath) IN
              IF more.threw THEN Threw ELSE Returned(one.errors \o more.errors)

RECURSIVE validateField(_, _, _)
RECURSIVE validateFields(_, _, _)

\* nested lists are validated one level down only
validateFields_OneLevelMut(items, i, prefix) ==
    IF Includes(prefix, ".") \/ i > Len(items) THEN Returned(<<>>)
    ELSE LET one == validateField(items[i], i - 1, prefix) IN
         IF one.threw THEN Threw
         ELSE LET more == validateFields(items, i + 1, prefix) IN
              IF more.threw THEN Threw ELSE Returned(one.errors \o more.errors)

validateField(field, idx, prefix) ==
    LET nameOrIdx == IF Truthy(field.name) THEN Stringify(field.name)
                     ELSE <<ToString(idx)>>
        fieldPath == IF Len(prefix) > 0
                     THEN prefix \o <<".">> \o nameOrIdx
                     ELSE IF Truthy(field.name) THEN Stringify(field.name)
                          ELSE <<"field[", ToString(idx), "]">>
        own ==
            ErrIf(~Truthy(field.name) \/ field.name.t # "string",
                  "Field must have a name (string)", <<"index ", ToString(idx)>>)
            \o ErrIf(~Truthy(field.selector) \/ field.selector.t # "string",
                     "Field must have a selector (string)", fieldPath)
            \o ErrIf(field.type.t # "undefined" /\
                       ~(field.type.t = "string" /\ field.type.s \in FIELD_TYPES),
                     "Field has invalid type", fieldPath)
        tr == IF field.transforms.t \in {"undefined", "null"} THEN Returned(<<>>)
              ELSE IF field.transforms.t # "array"
              THEN Returned(<< <<"Field transforms must be an array", fieldPath>> >>)
              ELSE validateTransforms(field.transforms.items, 1, fieldPath)
        ne == IF field.nested.t \in {"undefined", "null"} THEN Returned(<<>>)
              ELSE IF field.nested.t # "array"
              THEN Returned(<< <<"Field nested must be an array", fieldPath>> >>)
              ELSE validateFields(field.nested.items, 1, fieldPath)
    IN  IF field.kind = "null" THEN Threw
        ELSE IF tr.threw THEN Threw
        ELSE IF ne.threw THEN Threw
        ELSE Returned(own \o tr.errors \o ne.errors)

\* items.forEach((field, idx) => errors.push(...validateField(field, idx, prefix)))
validateFields(items, i, prefix) ==
    IF i > Len(items) THEN Returned(<<>>)
    ELSE LET one == validateField(items[i], i - 1, prefix) IN
         IF one.threw THEN Threw
         ELSE LET more == validateFields(items, i + 1, prefix) IN
              IF more.threw THEN Threw ELSE Returned(one.errors \o more.errors)

BadNumber(v, least) == v.t # "undefined" /\ (v.t # "number" \/ v.n < least)

validateTemplate(tmpl) ==
    IF tmpl.kind # "object"
    THEN Returned(<< <<"Template must be an object", <<>> >> >>)
    ELSE
    LET top ==
            ErrIf(~Truthy(tmpl.name) \/ tmpl.name.t # "string",
                  "Template must have a name (string)", <<>>)
            \o ErrIf(~Truthy(tmpl.container) \/ tmpl.container.t # "string",
                     "Template must have a container selector (string)", <<>>)
            \o ErrIf(tmpl.fields.t # "array" \/ Len(tmpl.fields.items) = 0,
                     "Template must have at least one field", <<>>)
        fs == IF tmpl.fields.t \in {"undefined", "null"} THEN Returned(<<>>)
              ELSE IF tmpl.fields.t # "array" THEN Threw
              ELSE validateFields(tmpl.fields.items, 1, <<>>)
        pg == IF tmpl.pagination.present
              THEN ErrIf(~Truthy(tmpl.pagination.nextSelector)
                           \/ tmpl.pagination.nextSelector.t # "string",
                         "Pagination must have a nextSelector (string)", <<>>)
                   \o ErrIf(BadNumber(tmpl.pagination.maxPages, 1),
                            "Pagination maxPages must be a positive number", <<>>)
                   \o ErrIf(BadNumber(tmpl.pagination.waitMs, 0),
                            "Pagination waitMs must be a non-negative number", <<>>)
              ELSE <<>>
        op == IF tmpl.options.present
              THEN ErrIf(BadNumber(tmpl.options.timeout, 0),
                         "Options timeout must be a non-negative number", <<>>)
                   \o ErrIf(BadNumber(tmpl.options.waitMs, 0),
                            "Options waitMs must be a non-negative number", <<>>)
              ELSE <<>>
    IN  IF fs.threw THEN Threw ELSE Returned(top \o fs.errors \o pg \o op)

(***************************************************************************)
(* The inputs of the runs.                                                 *)
(***************************************************************************)
NoParams ==
    [present |-> FALSE, pattern |-> Undefined, flags |-> Undefined,
     replacement |-> Undefined, group |-> Undefined, separator |-> Undefined,
     start |-> Undefined, end |-> Undefined]

PatternParams(chars) == [NoParams EXCEPT !.present = TRUE, !.pattern = Str(chars)]

Transform(type, params) == [kind |-> "object", type |-> Str(<<type>>), params |-> params]

Field(name, selector) ==
    [kind |-> "object", name |-> Str(<<name>>), selector |-> Str(<<selector>>),
     type |-> Undefined, attr |-> Undefined, transforms |-> NoArray,
     nested |-> NoArray, fallback |-> Undefined]

NoPagination ==
    [present |-> FALSE, nextSelector |-> Undefined, maxPages |-> Undefined,
     waitMs |-> Undefined]

Pagination(maxPagesVal) ==
    [present |-> TRUE, nextSelector |-> Str(<<".next">>), maxPages |-> maxPagesVal,
     waitMs |-> Undefined]

NoOptions ==
    [present |-> FALSE, waitForSelector |-> Undefined, waitMs |-> Undefined,
     timeout |-> Undefined, enableJs |-> Undefined]

WaitOptions ==
    [present |-> TRUE, waitForSelector |-> Str(<<".ready">>), waitMs |-> Num(500),
     timeout |-> Undefined, enableJs |-> Undefined]

Template(fields, pagination, options) ==
    [kind |-> "object", name |-> Str(<<"Products">>), container |-> Str(<<".item">>),
     fields |-> fields, pagination |-> pagination, options |-> options]

TitleField == Field("title", "h1")

\* a null in a list of fields
NullField ==
    [kind |-> "null", name |-> Undefined, selector |-> Undefined,
     type |-> Undefined, attr |-> Undefined, transforms |-> NoArray,
     nested |-> NoArray, fallback |-> Undefined]

\* a null in a list of transforms
NullTransform == [kind |-> "null", type |-> Undefined, params |-> NoParams]

\* a field that breaks every rule of validateField: no name, no selector, an
\* unknown type, transforms without a type, of an unknown type, without the
\* pattern they require and with params of the wrong type, and nested fields
\* that break the rules themselves
BrokenField ==
    [Field("x", "y") EXCEPT
       !.name = Undefined, !.selector = Num(7), !.type = Str(<<"weird">>),
       !.transforms =
           Arr(<<[Transform("trim", NoParams) EXCEPT !.type = Undefined],
                 Transform("bogus", NoParams),
                 Transform("regex", [NoParams EXCEPT !.present = TRUE, !.group = Num(-1)]),
                 Transform("slice", [NoParams EXCEPT !.present = TRUE,
                                       !.start = Str(<<"0">>), !.end = Str(<<"1">>)]),
                 Transform("split", [NoParams EXCEPT !.present = TRUE,
                                       !.separator = Num(1)])>>),
       !.nested =
           Arr(<<[Field("row", "tr") EXCEPT
                    !.selector = Undefined,
                    !.transforms = [t |-> "other", items |-> <<>>],
                    !.nested =
                        Arr(<<[Field("cell", "td") EXCEPT
                                 !.name = Undefined, !.type = Str(<<"weird">>),
                                 !.nested = [t |-> "other", items |-> <<>>]]>>)]>>)]

\* (.*)+ : a catalogued nested quantifier
DangerousPattern == <<"(", ".", "*", ")", "+">>

\* a trim transform that carries an unused, dangerous params.pattern
TrimWithPattern == Transform("trim", PatternParams(DangerousPattern))

ValidTemplates ==
    {Template(Arr(<<TitleField>>), NoPagination, NoOptions),
     Template(Arr(<<TitleField>>), Pagination(Undefined), NoOptions),
     Template(Arr(<<TitleField>>), Pagination(Num(MaxPagesBound)), NoOptions),
     Template(Arr(<<TitleField>>), Pagination(Num(MaxPagesBound)), WaitOptions),
     Template(Arr(<<[TitleField EXCEPT !.transforms = Arr(<<TrimWithPattern>>)]>>),
              Pagination(Num(MaxPagesBound)), NoOptions),
     \* the unused, dangerous pattern sits on a transform of a nested field
     Template(Arr(<<[TitleField EXCEPT !.nested =
                       Arr(<<[Field("cell", "td") EXCEPT
                                !.transforms = Arr(<<TrimWithPattern>>)]>>)]>>),
              NoPagination, NoOptions)}

InvalidTemplates ==
    {[Template(Arr(<<TitleField>>), NoPagination, NoOptions) EXCEPT !.name = Undefined],
     [Template(Arr(<<TitleField>>), NoPagination, NoOptions) EXCEPT !.kind = "null"],
     Template(Arr(<<>>), Pagination(Num(0)), NoOptions),
     Template([t |-> "other", items |-> <<>>], NoPagination, NoOptions),
     Template(Arr(<<NullField>>), NoPagination, NoOptions),
     Template(Arr(<<[TitleField EXCEPT !.transforms =
                       Arr(<<Transform("regex", PatternParams(DangerousPattern))>>)]>>),
              NoPagination, NoOptions),
     \* one top-level property missing or of the wrong type
     [Template(Arr(<<TitleField>>), NoPagination, NoOptions) EXCEPT !.container = Undefined],
     [Template(Arr(<<TitleField>>), NoPagination, NoOptions) EXCEPT !.name = Num(5)],
     [Template(Arr(<<TitleField>>), NoPagination, NoOptions) EXCEPT !.container = Str(<<>>)],
     Template(NoArray, NoPagination, NoOptions),
     Template([t |-> "null", items |-> <<>>], NoPagination, NoOptions),
     \* every top-level, pagination and options check violated at once
     [Template(Arr(<<>>),
               [present |-> TRUE, nextSelector |-> Undefined, maxPages |-> Num(0),
                waitMs |-> Num(-1)],
               [NoOptions EXCEPT !.present = TRUE, !.timeout = Num(-1),
                                 !.waitMs = Str(<<"soon">>)])
        EXCEPT !.name = Undefined, !.container = Undefined],
     \* a field violating every field rule, with violations one, two and
     \* three levels down
     Template(Arr(<<TitleField, BrokenField>>), Pagination(Num(0)), NoOptions),
     \* the only violation is two levels down
     Template(Arr(<<[TitleField EXCEPT !.nested =
                       Arr(<<[Field("row", "tr") EXCEPT !.nested =
                                Arr(<<[Field("cell", "td") EXCEPT
                                         !.selector = Undefined]>>)]>>)]>>),
              NoPagination, NoOptions),
     \* a null among the transforms, a null two levels down, a null after
     \* a field without a selector in a template without a name
     Template(Arr(<<[TitleField EXCEPT !.transforms = Arr(<<NullTransform>>)]>>),
              NoPagination, NoOptions),
     Template(Arr(<<[TitleField EXCEPT !.nested =
                       Arr(<<[Field("row", "tr") EXCEPT !.nested = Arr(<<NullField>>)]>>)]>>),
              NoPagination, NoOptions),
     [Template(Arr(<<[TitleField EXCEPT !.selector = Undefined], NullField>>),
               NoPagination, NoOptions) EXCEPT !.name = Undefined],
     \* a value that is no object in the list of fields
     Template(Arr(<<[NullField EXCEPT !.kind = "other"]>>), NoPagination, NoOptions)}

Templates == ValidTemplates \cup InvalidTemplates

ValidUrls == {Str(<<"example.com">>)}

InvalidUrls ==
    {JsNull, Str(<<>>), Str(<<" ", " ">>), Str(<<"not", " ", "valid", ":", ":">>)}

Urls == ValidUrls \cup InvalidUrls

\* the messages of the provider's failures: one in the transient catalogue, one not
TransientMessage == <<"page.goto: ", "Timeout", " 30000ms exceeded">>
FatalMessage == <<"Target page, context or browser has been closed">>
ProviderMessages == {TransientMessage, FatalMessage}

\* options.maxRetries ?? DEFAULTS.MAX_RETRIES
maxRetries == IF maxRetriesOpt = <<>> THEN MAX_RETRIES ELSE maxRetriesOpt[1]

\* template.pagination?.maxPages ?? DEFAULTS.MAX_PAGES
maxPages ==
    IF template.pagination.present /\ template.pagination.maxPages.t \notin {"undefined", "null"}
    THEN template.pagination.maxPages.n
    ELSE MAX_PAGES

AwaitPcs ==
    {"launch", "newPage", "goto", "detect", "waitSel", "waitMs", "evaluate",
     "findNext", "click", "pagWait", "loadState", "delay", "closing"}

Completion(type, err) == [type |-> type, err |-> err]
NoCompletion == Completion("none", NoError)

Cancelled == ExtractionError(<<"Extraction cancelled">>, "CANCELLED", FALSE)

\* an item: a JavaScript object as its keys in insertion order and, at the
\* same positions, their values
NoItem == [t |-> "object", keys |-> <<>>, values |-> <<>>]

\* no function is being called on its own
NoCall == [fn |-> "none", arg |-> <<>>]

\* extractData has been called and has not run yet
Idle ==
    /\ overBudget = FALSE
    /\ pc = "start"
    /\ attempt = 0
    /\ browser = "null"
    /\ page = "none"
    /\ listener = FALSE
    /\ lastError = NoError
    /\ pending = NoCompletion
    /\ allData = <<>>
    /\ pageCount = 0
    /\ outcome = "running"
    /\ result = <<>>
    /\ thrown = NoError
    /\ launched = 0
    /\ closed = 0
    /\ navigations = 0
    /\ evaluations = 0
    /\ cbLog = <<>>
    /\ delays = <<>>
    /\ abortedAt = IF aborted THEN "before" ELSE ""
    /\ hasNext = "unset"
    /\ containers = <<>>
    /\ results = <<>>
    /\ item = NoItem
    /\ containerIdx = 0
    /\ fieldIdx = 0
    /\ enginePc = "idle"
    /\ previous = <<>>

Init ==
    /\ url \in Urls
    /\ template \in Templates
    /\ maxRetriesOpt \in {<<>>} \cup {<<n>> : n \in 0..MaxRetriesBound}
    /\ hasCallback \in BOOLEAN
    /\ aborted \in BOOLEAN
    /\ call = NoCall
    /\ ret = <<>>
    /\ Idle

(***************************************************************************)
(* extractData and extractWithBrowser (extractor.ts).  The code is one     *)
(* asynchronous flow; pc names the await it is suspended at (AwaitPcs) or  *)
(* the synchronous stretch it is about to run.  The abort signal and the   *)
(* clock change only while the flow is suspended at an await.              *)
(***************************************************************************)
\* the arguments of extractData and, untouched by a run of extractData, the
\* call of an exported function on its own
inputs == <<url, template, maxRetriesOpt, hasCallback, call, ret>>
engine == <<containers, results, item, containerIdx, fieldIdx, enginePc, previous>>
environment == <<aborted, overBudget, abortedAt>>
session == <<browser, page, launched, closed>>
extraction == <<allData, pageCount, evaluations, cbLog>>
final == <<outcome, result, thrown>>

\* extractData raises err before the retry loop or after it: no finally block
Raise(err) ==
    /\ pc' = "done"
    /\ outcome' = "raised"
    /\ thrown' = err
    /\ UNCHANGED result

\* a throw inside extractWithBrowser: the inner finally removes the abort
\* handler, the catch block of extractData gets the error
ThrowInAttempt(err) ==
    /\ pc' = "catch"
    /\ pending' = Completion("error", err)
    /\ listener' = FALSE

\* extractWithBrowser returns allData: the inner finally removes the abort
\* handler, the outer finally runs with the return pending
ReturnFromAttempt ==
    /\ pc' = "finally"
    /\ pending' = Completion("return", NoError)
    /\ listener' = FALSE

Goto(label) ==
    /\ pc' = label
    /\ UNCHANGED <<pending, listener>>

\* lines 112-141: the pre-flight checks
Preflight ==
    /\ pc = "start"
    /\ LET urlValidation == validateUrl(url)
           validation == validateTemplate(template)
       IN  IF ~urlValidation.valid
           THEN Raise(ExtractionError(<<"Invalid URL: ">> \o urlValidation.error,
                                      "INVALID_URL", FALSE))
                /\ UNCHANGED attempt
           ELSE IF validation.threw
           THEN Raise(RawError(<<"TypeError">>)) /\ UNCHANGED attempt
           ELSE IF Len(validation.errors) > 0
           THEN Raise([ExtractionError(<<"Invalid template">>, "INVALID_TEMPLATE", FALSE)
                         EXCEPT !.errors = validation.errors])
                /\ UNCHANGED attempt
           ELSE IF aborted
           THEN Raise(Cancelled) /\ UNCHANGED attempt
           ELSE /\ pc' = "loopHead"
                /\ attempt' = 1
                /\ UNCHANGED final
    /\ UNCHANGED <<inputs, engine, hasNext, environment, session, extraction, pending, listener,
                   lastError, navigations, delays>>

AttemptsLeft_AlwaysMut == TRUE

\* line 144: the test of the retry loop
AttemptsLeft == attempt <= maxRetries

\* lines 144-148 and 194-195: the loop test, then chromium.launch is called
LoopHead ==
    /\ pc = "loopHead"
    /\ IF AttemptsLeft
       THEN /\ pc' = "launch"
            /\ browser' = "null"
            /\ page' = "none"
            /\ allData' = <<>>
            /\ pageCount' = 0
            /\ evaluations' = 0
            /\ cbLog' = <<>>
            /\ hasNext' = "unset"
            /\ UNCHANGED final
       ELSE /\ Raise(IF lastError = NoError
                     THEN RawError(<<"Extraction failed">>)
                     ELSE lastError)
            /\ UNCHANGED <<browser, page, extraction, hasNext>>
    /\ UNCHANGED <<inputs, engine, environment, launched, closed, pending,
                   listener, lastError, navigations, delays, attempt>>

\* line 148: chromium.launch resolves; browser.newPage is called
LaunchOk ==
    /\ pc = "launch"
    /\ browser' = "open"
    /\ launched' = launched + 1
    /\ Goto("newPage")
    /\ UNCHANGED <<inputs, engine, hasNext, environment, page, closed, extraction, final, lastError,
                   navigations, delays, attempt>>

\* line 148: chromium.launch rejects
LaunchFail ==
    /\ pc = "launch"
    /\ \E m \in ProviderMessages :
          /\ pc' = "catch"
          /\ pending' = Completion("error", RawError(m))
    /\ UNCHANGED <<inputs, engine, hasNext, environment, session, extraction, final, lastError,
                   navigations, delays, attempt, listener>>

\* lines 149-158 and 208-216: newPage resolves, the abort handler is
\* registered, extractWithBrowser is entered and page.goto is called
NewPageOk ==
    /\ pc = "newPage"
    /\ page' = "open"
    /\ listener' = TRUE
    /\ navigations' = navigations + 1
    /\ pc' = "goto"
    /\ UNCHANGED <<inputs, engine, hasNext, environment, browser, launched, closed, extraction, final,
                   lastError, delays, attempt, pending>>

\* line 149: newPage rejects
NewPageFail ==
    /\ pc = "newPage"
    /\ \E m \in ProviderMessages :
          /\ pc' = "catch"
          /\ pending' = Completion("error", RawError(m))
    /\ UNCHANGED <<inputs, engine, hasNext, environment, session, extraction, final, lastError,
                   navigations, delays, attempt, listener>>

\* line 228: page.goto resolved, detectBlockingContent is called
GotoOk ==
    /\ pc = "goto"
    /\ Goto("detect")
    /\ UNCHANGED <<inputs, engine, hasNext, environment, session, extraction, final, lastError,
                   navigations, delays, attempt>>

\* lines 217-225: page.goto rejected
GotoFail ==
    /\ pc = "goto"
    /\ \E m \in ProviderMessages :
          ThrowInAttempt(ExtractionError(<<"Failed to load page: ">> \o m,
                                         "PAGE_LOAD_FAILED", isRetryableError(m)))
    /\ UNCHANGED <<inputs, engine, hasNext, environment, session, extraction, final, lastError,
                   navigations, delays, attempt>>

\* lines 236-258: what follows the blocking check, up to the next await
AfterDetect ==
    IF template.options.present /\ Truthy(template.options.waitForSelector)
    THEN Goto("waitSel")
    ELSE IF template.options.present /\ Truthy(template.options.waitMs)
    THEN Goto("waitMs")
    ELSE Goto("budget")

\* lines 228-234: detectBlockingContent returned, a message or null
DetectDone ==
    /\ pc = "detect"
    /\ AfterDetect
    /\ UNCHANGED <<inputs, engine, hasNext, environment, session, extraction, final, lastError,
                   navigations, delays, attempt>>

\* lines 84-92: a provider call of detectBlockingContent rejected
DetectFail ==
    /\ pc = "detect"
    /\ \E m \in ProviderMessages : ThrowInAttempt(RawError(m))
    /\ UNCHANGED <<inputs, engine, hasNext, environment, session, extraction, final, lastError,
                   navigations, delays, attempt>>

\* lines 239-241 and 253: page.waitForSelector resolved
WaitSelOk ==
    /\ pc = "waitSel"
    /\ IF Truthy(template.options.waitMs) THEN Goto("waitMs") ELSE Goto("budget")
    /\ UNCHANGED <<inputs, engine, hasNext, environment, session, extraction, final, lastError,
                   navigations, delays, attempt>>

\* lines 242-249: page.waitForSelector rejected
WaitSelFail ==
    /\ pc = "waitSel"
    /\ ThrowInAttempt(ExtractionError(
           <<"Selector not found within ms: ">> \o template.options.waitForSelector.s,
           "SELECTOR_TIMEOUT", FALSE))
    /\ UNCHANGED <<inputs, engine, hasNext, environment, session, extraction, final, lastError,
                   navigations, delays, attempt>>

\* line 254: page.waitForTimeout resolved
WaitMsOk ==
    /\ pc = "waitMs"
    /\ Goto("budget")
    /\ UNCHANGED <<inputs, engine, hasNext, environment, session, extraction, final, lastError,
                   navigations, delays, attempt>>

\* line 254: page.waitForTimeout rejected
WaitMsFail ==
    /\ pc = "waitMs"
    /\ \E m \in ProviderMessages : ThrowInAttempt(RawError(m))
    /\ UNCHANGED <<inputs, engine, hasNext, environment, session, extraction, final, lastError,
                   navigations, delays, attempt>>

BudgetExceeded_NeverMut == FALSE

\* lines 258-259 and 310-311: elapsed > DEFAULTS.OVERALL_TIMEOUT_MS, with
\* elapsed measured from the startTime taken at the entry of extractData
BudgetExceeded == overBudget

\* lines 257-270: the overall-timeout check before the first page
Budget ==
    /\ pc = "budget"
    /\ IF BudgetExceeded
       THEN /\ ThrowInAttempt(ExtractionError(<<"Overall extraction timeout exceeded">>,
                                              "OVERALL_TIMEOUT", FALSE))
            /\ UNCHANGED <<allData, pageCount>>
       ELSE /\ allData' = <<>>
            /\ pageCount' = 0
            /\ Goto("pageTop")
    /\ UNCHANGED <<inputs, engine, hasNext, environment, session, evaluations, cbLog, final,
                   lastError, navigations, delays, attempt>>

\* extractPage lines 360-372: a transform of a top-level field carries a
\* pattern that isRegexSafe rejects
UnsafeTransform(t) ==
    /\ t.params.present
    /\ Truthy(t.params.pattern)
    /\ t.params.pattern.t = "string"
    /\ ~isRegexSafe(t.params.pattern.s)

HasUnsafePattern(tmpl) ==
    \E i \in 1..Len(tmpl.fields.items) :
        LET field == tmpl.fields.items[i] IN
        /\ field.transforms.t = "array"
        /\ \E j \in 1..Len(field.transforms.items) :
              UnsafeTransform(field.transforms.items[j])

PageFailed_RethrowMut(err) == ThrowInAttempt(err)

\* lines 298-307: the catch block of the page loop
PageFailed(err) ==
    IF Len(allData) > 0 THEN ReturnFromAttempt ELSE ThrowInAttempt(err)

PartialOnCancel_NeverMut == FALSE

\* line 279: a cancelled run that holds data returns it
PartialOnCancel == Len(allData) > 0

\* lines 274-286 and 360-374: the cancellation check before a page, then
\* extractPage up to its page.evaluate call
PageTop ==
    /\ pc = "pageTop"
    /\ IF aborted
       THEN /\ IF PartialOnCancel
               THEN ReturnFromAttempt
               ELSE ThrowInAttempt(Cancelled)
            /\ UNCHANGED evaluations
       ELSE IF HasUnsafePattern(template)
       THEN /\ PageFailed(ExtractionError(<<"Unsafe regex pattern in field">>,
                                          "UNSAFE_REGEX", FALSE))
            /\ UNCHANGED evaluations
       ELSE /\ Goto("evaluate")
            /\ evaluations' = evaluations + 1
    /\ UNCHANGED <<inputs, engine, hasNext, environment, session, allData, pageCount, cbLog, final,
                   lastError, navigations, delays, attempt>>

\* the records page.evaluate gives for the view shown: n records, each
\* identified by the view and its position
Records(view, n) == [i \in 1..n |-> <<view, i>>]

\* the callback is called before the records are appended and the page is
\* counted
EvaluateOk_CallbackFirstMut ==
    /\ pc = "evaluate"
    /\ \E n \in 0..MaxItems :
          LET got == Records(evaluations, n) IN
          /\ cbLog' = IF hasCallback
                      THEN Append(cbLog, [items |-> got, pageNum |-> pageCount + 1])
                      ELSE cbLog
          /\ \/ /\ allData' = allData \o got
                /\ pageCount' = pageCount + 1
                /\ Goto("afterPage")
             \/ /\ hasCallback
                /\ UNCHANGED <<allData, pageCount>>
                /\ \E m \in ProviderMessages :
                      IF Len(allData) > 0
                      THEN ReturnFromAttempt
                      ELSE ThrowInAttempt(RawError(m))
    /\ UNCHANGED <<inputs, engine, hasNext, environment, session, evaluations, final, lastError,
                   navigations, delays, attempt>>

\* lines 286-297: page.evaluate resolved with n records; they are appended,
\* the page is counted and the callback, if any, is called (it may throw)
EvaluateOk ==
    /\ pc = "evaluate"
    /\ \E n \in 0..MaxItems :
          LET got == Records(evaluations, n) IN
          /\ allData' = allData \o got
          /\ pageCount' = pageCount + 1
          /\ cbLog' = IF hasCallback
                      THEN Append(cbLog, [items |-> got, pageNum |-> pageCount + 1])
                      ELSE cbLog
          /\ \/ Goto("afterPage")
             \/ /\ hasCallback
                /\ \E m \in ProviderMessages :
                      IF Len(allData \o got) > 0
                      THEN ReturnFromAttempt
                      ELSE ThrowInAttempt(RawError(m))
    /\ UNCHANGED <<inputs, engine, hasNext, environment, session, evaluations, final, lastError,
                   navigations, delays, attempt>>

EvaluateFail_CallbackMut ==
    /\ pc = "evaluate"
    /\ \E m \in ProviderMessages : PageFailed(RawError(m))
    /\ cbLog' = IF hasCallback
                THEN Append(cbLog, [items |-> <<>>, pageNum |-> pageCount + 1])
                ELSE cbLog
    /\ UNCHANGED <<inputs, engine, hasNext, environment, session, allData, pageCount,
                   evaluations, final, lastError, navigations, delays, attempt>>

\* lines 286 and 298-307: page.evaluate rejected
EvaluateFail ==
    /\ pc = "evaluate"
    /\ \E m \in ProviderMessages : PageFailed(RawError(m))
    /\ UNCHANGED <<inputs, engine, hasNext, environment, session, extraction, final, lastError,
                   navigations, delays, attempt>>

MorePages_AlwaysMut == TRUE

\* lines 319 and 346: pageCount < maxPages
MorePages == pageCount < maxPages

\* lines 309-321 and 343-348: the overall-timeout check after a page, then
\* the decision to paginate; page.$ for the next control is called
AfterPage ==
    /\ pc = "afterPage"
    /\ IF BudgetExceeded
       THEN ReturnFromAttempt
       ELSE IF template.pagination.present /\ MorePages
       THEN Goto("findNext")
       ELSE ReturnFromAttempt
    /\ hasNext' = "unset"
    /\ UNCHANGED <<inputs, engine, environment, session, extraction, final, lastError,
                   navigations, delays, attempt>>

NoNextControl_RaiseMut == ThrowInAttempt(RawError(FatalMessage))

\* lines 330-335: no next control: break, and allData is returned
NoNextControl == ReturnFromAttempt

\* lines 321-335: page.$ resolved; the control is there (click is called) or not
FindNextOk ==
    /\ pc = "findNext"
    /\ \/ hasNext' = "present" /\ Goto("click")
       \/ hasNext' = "absent" /\ NoNextControl
    /\ UNCHANGED <<inputs, engine, environment, session, extraction, final, lastError,
                   navigations, delays, attempt>>

PaginationCatch_RethrowMut == ThrowInAttempt(RawError(TransientMessage))

\* lines 336-342: the catch block of the pagination step: break, and
\* allData is returned
PaginationCatch == ReturnFromAttempt

\* lines 336-342: page.$, page.click or page.waitForTimeout rejected
PaginationFail ==
    /\ pc \in {"findNext", "click", "pagWait"}
    /\ PaginationCatch
    /\ UNCHANGED <<inputs, engine, hasNext, environment, session, extraction, final, lastError,
                   navigations, delays, attempt>>

\* lines 323-324: page.click resolved, page.waitForTimeout is called
ClickOk ==
    /\ pc = "click"
    /\ Goto("pagWait")
    /\ UNCHANGED <<inputs, engine, hasNext, environment, session, extraction, final, lastError,
                   navigations, delays, attempt>>

\* lines 324-327: page.waitForTimeout resolved, page.waitForLoadState is called
PagWaitOk ==
    /\ pc = "pagWait"
    /\ Goto("loadState")
    /\ UNCHANGED <<inputs, engine, hasNext, environment, session, extraction, final, lastError,
                   navigations, delays, attempt>>

\* lines 327-329 and 346: page.waitForLoadState settled (a rejection is
\* swallowed), then the loop test
LoadStateDone ==
    /\ pc = "loadState"
    /\ IF MorePages THEN Goto("pageTop") ELSE ReturnFromAttempt
    /\ UNCHANGED <<inputs, engine, hasNext, environment, session, extraction, final, lastError,
                   navigations, delays, attempt>>

\* what the finally block of the attempt completes with
Throw(err) ==
    /\ pc' = "finally"
    /\ pending' = Completion("throw", err)

NonRecoverable_NeverMut(error) == FALSE

\* line 167: error instanceof ExtractionError && !error.recoverable
NonRecoverable(error) == error.isEE /\ ~error.recoverable

ShouldRetry_NeverMut(error) == FALSE

ShouldRetry_AnyErrorMut(error) == attempt < maxRetries

ShouldRetry_EveryAttemptMut(error) == isRetryableError(error.msg)

\* line 172: the error is transient and an attempt is left
ShouldRetry(error) == isRetryableError(error.msg) /\ attempt < maxRetries

\* lines 163-186: the catch block of the attempt.  A non-recoverable
\* ExtractionError is rethrown; a retryable error with attempts left starts
\* delay(), which rejects at once when the signal is already aborted; any
\* other error becomes EXTRACTION_FAILED
Catch ==
    /\ pc = "catch"
    /\ LET error == pending.err IN
       /\ lastError' = error
       /\ IF NonRecoverable(error)
          THEN Throw(error) /\ UNCHANGED delays
          ELSE IF ShouldRetry(error)
          THEN IF aborted
               THEN Throw(Cancelled) /\ UNCHANGED delays
               ELSE /\ pc' = "delay"
                    /\ delays' = Append(delays, RETRY_DELAY_MS * attempt)
                    /\ UNCHANGED pending
          ELSE /\ Throw([ExtractionError(
                            <<"Extraction failed after ", ToString(attempt),
                              " attempt(s): ">> \o error.msg,
                            "EXTRACTION_FAILED", FALSE)
                         EXCEPT !.attempts = attempt])
               /\ UNCHANGED delays
    /\ UNCHANGED <<inputs, engine, hasNext, environment, session, extraction, final, navigations,
                   attempt, listener>>

\* lines 62 and 176-177: the timer of delay() fired; continue
DelayDone ==
    /\ pc = "delay"
    /\ ~aborted
    /\ pc' = "finally"
    /\ pending' = Completion("continue", NoError)
    /\ UNCHANGED <<inputs, engine, hasNext, environment, session, extraction, final, lastError,
                   navigations, delays, attempt, listener>>

\* lines 64-67: the signal fired during delay(): it rejects with CANCELLED
DelayAborted ==
    /\ pc = "delay"
    /\ aborted
    /\ Throw(Cancelled)
    /\ UNCHANGED <<inputs, engine, hasNext, environment, session, extraction, final, lastError,
                   navigations, delays, attempt, listener>>

\* the attempt is over: extractData returns, raises, or starts the next attempt
Complete ==
    CASE pending.type = "return" ->
            /\ pc' = "done"
            /\ outcome' = "returned"
            /\ result' = allData
            /\ UNCHANGED <<thrown, attempt>>
      [] pending.type = "throw" ->
            /\ pc' = "done"
            /\ outcome' = "raised"
            /\ thrown' = pending.err
            /\ UNCHANGED <<result, attempt>>
      [] OTHER ->
            /\ pc' = "loopHead"
            /\ attempt' = attempt + 1
            /\ UNCHANGED final

BrowserLaunched_UnlessThrowingMut == browser # "null" /\ pending.type # "throw"

BrowserLaunched_UnlessRetryingMut == browser # "null" /\ pending.type # "continue"

\* line 188: if (browser)
BrowserLaunched == browser # "null"

\* lines 187-191: the finally block: browser.close is called when a browser
\* was launched
Finally ==
    /\ pc = "finally"
    /\ IF BrowserLaunched
       THEN /\ pc' = "closing"
            /\ UNCHANGED <<final, attempt>>
       ELSE Complete
    /\ UNCHANGED <<inputs, engine, hasNext, environment, session, extraction, lastError,
                   navigations, delays, listener, pending>>

\* line 189: browser.close settled (a rejection is swallowed)
CloseDone ==
    /\ pc = "closing"
    /\ browser' = "closed"
    /\ page' = IF page = "none" THEN "none" ELSE "closed"
    /\ closed' = closed + 1
    /\ Complete
    /\ UNCHANGED <<inputs, engine, hasNext, environment, launched, extraction, lastError,
                   navigations, delays, listener, pending>>

abortHandler_NoCloseMut == page' = page /\ listener' = FALSE

\* lines 152-155: the abort handler, registered once: it closes the page
abortHandler ==
    /\ page' = IF listener THEN "closed" ELSE page
    /\ listener' = FALSE

\* the abort signal fires while the flow is suspended, and the abort handler
\* runs if it is registered
Abort ==
    /\ pc \in AwaitPcs
    /\ ~aborted
    /\ aborted' = TRUE
    /\ abortedAt' = pc
    /\ abortHandler
    /\ UNCHANGED <<inputs, engine, hasNext, overBudget, pc, attempt, browser, launched, closed,
                   lastError, pending, extraction, final, navigations, delays>>

\* the clock passes startTime + DEFAULTS.OVERALL_TIMEOUT_MS while the flow is
\* suspended
TimePasses ==
    /\ pc \in AwaitPcs
    /\ ~overBudget
    /\ overBudget' = TRUE
    /\ UNCHANGED <<inputs, engine, hasNext, aborted, abortedAt, pc, attempt, session, listener,
                   lastError, pending, extraction, final, navigations, delays>>

Next ==
    \/ Preflight
    \/ LoopHead
    \/ LaunchOk
    \/ LaunchFail
    \/ NewPageOk
    \/ NewPageFail
    \/ GotoOk
    \/ GotoFail
    \/ DetectDone
    \/ DetectFail
    \/ WaitSelOk
    \/ WaitSelFail
    \/ WaitMsOk
    \/ WaitMsFail
    \/ Budget
    \/ PageTop
    \/ EvaluateOk
    \/ EvaluateFail
    \/ AfterPage
    \/ FindNextOk
    \/ PaginationFail
    \/ ClickOk
    \/ PagWaitOk
    \/ LoadStateDone
    \/ Catch
    \/ DelayDone
    \/ DelayAborted
    \/ Finally
    \/ CloseDone
    \/ Abort
    \/ TimePasses

Spec == Init /\ [][Next]_vars

(***************************************************************************)
(* The evaluation context of extractPage (extractor.ts 375-583): the       *)
(* function that page.evaluate runs in the page.  Its strings are          *)
(* sequences of characters.  A number is [t |-> "number", n, s]: n is its  *)
(* integer part and s the digits of its fraction, after a "-" when the     *)
(* number is negative and n is 0.  An array is Arr(items).                 *)
(***************************************************************************)
Digits == <<"0", "1", "2", "3", "4", "5", "6", "7", "8", "9">>
IsDigit(c) == \E d \in 1..10 : Digits[d] = c

\* the number a run of decimal digits denotes
RECURSIVE DigitsVal(_)
DigitsVal(ds) ==
    IF Len(ds) = 0 THEN 0
    ELSE 10 * DigitsVal(SubSeq(ds, 1, Len(ds) - 1))
         + (CHOOSE d \in 0..9 : Digits[d + 1] = ds[Len(ds)])

\* the decimal digits of a natural number
RECURSIVE NatChars(_)
NatChars(k) ==
    IF k < 10 THEN <<Digits[k + 1]>>
    ELSE NatChars(k \div 10) \o <<Digits[(k % 10) + 1]>>

\* the digits a string starts with
RECURSIVE DigitRun(_)
DigitRun(cs) ==
    IF Len(cs) > 0 /\ IsDigit(Head(cs)) THEN <<Head(cs)>> \o DigitRun(Tail(cs))
    ELSE <<>>

RECURSIVE StripTrailingZeros(_)
StripTrailingZeros(ds) ==
    IF Len(ds) > 0 /\ ds[Len(ds)] = "0"
    THEN StripTrailingZeros(SubSeq(ds, 1, Len(ds) - 1))
    ELSE ds

NaN == [t |-> "number", n |-> 0, s |-> <<"NaN">>]

\* the number with the sign, integer part and fraction digits given
Number(neg, k, frac) ==
    LET f == StripTrailingZeros(frac) IN
    [t |-> "number",
     n |-> IF neg THEN 0 - k ELSE k,
     s |-> IF neg /\ k = 0 /\ Len(f) > 0 THEN <<"-">> \o f ELSE f]

\* parseInt(cleaned, 10) for a string of digits and "-"
parseInt(cs) ==
    LET neg == Len(cs) > 0 /\ Head(cs) = "-"
        rest == IF neg THEN Tail(cs) ELSE cs
        run == DigitRun(rest)
    IN  IF Len(run) = 0 THEN NaN ELSE Number(neg, DigitsVal(run), <<>>)

\* parseFloat(cleaned) for a string of digits, "." and "-"
parseFloat(cs) ==
    LET neg == Len(cs) > 0 /\ Head(cs) = "-"
        rest == IF neg THEN Tail(cs) ELSE cs
        ip == DigitRun(rest)
        after == SubSeq(rest, Len(ip) + 1, Len(rest))
        fp == IF Len(after) > 0 /\ Head(after) = "." THEN DigitRun(Tail(after)) ELSE <<>>
    IN  IF Len(ip) = 0 /\ Len(fp) = 0 THEN NaN ELSE Number(neg, DigitsVal(ip), fp)

\* String(v)
RECURSIVE String(_)
RECURSIVE Join(_, _)

String(v) ==
    CASE v.t = "string" -> v.s
      [] v.t = "number" ->
            IF v = NaN THEN <<"N", "a", "N">>
            ELSE LET neg == v.n < 0 \/ (Len(v.s) > 0 /\ Head(v.s) = "-")
                     frac == IF Len(v.s) > 0 /\ Head(v.s) = "-" THEN Tail(v.s) ELSE v.s
                 IN  (IF neg THEN <<"-">> ELSE <<>>)
                     \o NatChars(IF v.n < 0 THEN 0 - v.n ELSE v.n)
                     \o (IF Len(frac) > 0 THEN <<".">> \o frac ELSE <<>>)
      [] v.t = "boolean" ->
            IF v.n = 1 THEN <<"t", "r", "u", "e">> ELSE <<"f", "a", "l", "s", "e">>
      [] v.t = "array" -> Join(v.items, <<",">>)
      [] v.t = "null" -> <<"n", "u", "l", "l">>
      [] v.t = "object" -> <<"[object Object]">>
      [] OTHER -> <<"u", "n", "d", "e", "f", "i", "n", "e", "d">>

\* Array.prototype.join: null and undefined elements give the empty string
Join(xs, sep) ==
    IF Len(xs) = 0 THEN <<>>
    ELSE LET one == IF xs[1].t \in {"null", "undefined"} THEN <<>> ELSE String(xs[1]) IN
         IF Len(xs) = 1 THEN one ELSE one \o sep \o Join(Tail(xs), sep)

\* the letters of the strings of the model, in their two cases
Letters ==
    [lower |-> <<"a", "b", "c", "d", "e", "f", "g", "h", "i", "j", "k", "l", "m",
                 "n", "o", "p", "q", "r", "s", "t", "u", "v", "w", "x", "y", "z">>,
     upper |-> <<"A", "B", "C", "D", "E", "F", "G", "H", "I", "J", "K", "L", "M",
                 "N", "O", "P", "Q", "R", "S", "T", "U", "V", "W", "X", "Y", "Z">>]

toLowerCase(cs) ==
    [i \in 1..Len(cs) |->
        IF \E k \in 1..26 : Letters.upper[k] = cs[i]
        THEN Letters.lower[CHOOSE k \in 1..26 : Letters.upper[k] = cs[i]]
        ELSE cs[i]]

toUpperCase(cs) ==
    [i \in 1..Len(cs) |->
        IF \E k \in 1..26 : Letters.lower[k] = cs[i]
        THEN Letters.upper[CHOOSE k \in 1..26 : Letters.lower[k] = cs[i]]
        ELSE cs[i]]

\* String.prototype.slice(start, end); end is <<>> when it is undefined
slice(cs, start, end) ==
    LET len == Len(cs)
        from == IF start < 0 THEN (IF len + start > 0 THEN len + start ELSE 0)
                ELSE IF start < len THEN start ELSE len
        e == IF end = <<>> THEN len ELSE end[1]
        to == IF e < 0 THEN (IF len + e > 0 THEN len + e ELSE 0)
              ELSE IF e < len THEN e ELSE len
    IN  IF from < to THEN SubSeq(cs, from + 1, to) ELSE <<>>

\* the first position at or after from where lit occurs in cs, or 0
IndexOf(cs, lit, from) ==
    IF \E i \in from..(Len(cs) + 1) : MatchAt(cs, i, lit)
    THEN CHOOSE i \in from..(Len(cs) + 1) :
            /\ MatchAt(cs, i, lit)
            /\ \A j \in from..(i - 1) : ~MatchAt(cs, j, lit)
    ELSE 0

\* String.prototype.split(separator) for a non-empty separator string
RECURSIVE split(_, _)
split(cs, separator) ==
    LET i == IndexOf(cs, separator, 1) IN
    IF i = 0 THEN <<cs>>
    ELSE <<SubSeq(cs, 1, i - 1)>> \o split(SubSeq(cs, i + Len(separator), Len(cs)), separator)

(***************************************************************************)
(* The host's regular expressions, for the patterns the templates of the   *)
(* model use: a pattern without special characters, which matches itself,  *)
(* and the two groups of (\d),(\d+).                                       *)
(***************************************************************************)
IsLiteralPattern(p) ==
    \A i \in 1..Len(p) :
        p[i] \notin {"\\", "^", "$", ".", "|", "?", "*", "+", "(", ")", "[", "]", "{", "}"}

\* (\d),(\d+)
DigitThenRun == <<"(", "\\", "d", ")", ",", "(", "\\", "d", "+", ")">>

NoMatch == [found |-> FALSE, index |-> 0, groups |-> <<>>]

\* the leftmost match of (\d),(\d+) at or after position i: a digit, the
\* comma and the run of digits after it
RECURSIVE execGroups(_, _)
execGroups(cs, i) ==
    IF i + 2 > Len(cs) THEN NoMatch
    ELSE IF /\ IsDigit(cs[i])
            /\ cs[i + 1] = ","
            /\ IsDigit(cs[i + 2])
    THEN [found |-> TRUE, index |-> i,
          groups |-> << <<cs[i], ",">> \o DigitRun(SubSeq(cs, i + 2, Len(cs))),
                        <<cs[i]>>,
                        DigitRun(SubSeq(cs, i + 2, Len(cs))) >>]
    ELSE execGroups(cs, i + 1)

\* RegExp.prototype.exec: the leftmost match; groups[1] is the whole match
\* (match[0]), groups[k + 1] is capture k
exec(pattern, cs, ignoreCase) ==
    IF IsLiteralPattern(pattern)
    THEN LET i == IF ignoreCase
                  THEN IndexOf(toLowerCase(cs), toLowerCase(pattern), 1)
                  ELSE IndexOf(cs, pattern, 1)
         IN  IF i = 0 THEN NoMatch
             ELSE [found |-> TRUE, index |-> i,
                   groups |-> <<SubSeq(cs, i, i + Len(pattern) - 1)>>]
    ELSE IF pattern = DigitThenRun THEN execGroups(cs, 1)
    ELSE NoMatch

\* new RegExp(pattern, flags) does not throw
FlagsValid(flags) ==
    /\ \A i \in 1..Len(flags) : flags[i] \in {"d", "g", "i", "m", "s", "u", "v", "y"}
    /\ \A i, j \in 1..Len(flags) : flags[i] = flags[j] => i = j

\* String.prototype.replace(new RegExp(pattern, flags), replacement), for a
\* replacement without $ and a pattern that matches no empty string
RECURSIVE replace(_, _, _, _)
replace(cs, pattern, flags, replacement) ==
    LET m == exec(pattern, cs, Includes(flags, "i")) IN
    IF ~m.found \/ Len(m.groups[1]) = 0 THEN cs
    ELSE SubSeq(cs, 1, m.index - 1) \o replacement
         \o (IF Includes(flags, "g")
             THEN replace(SubSeq(cs, m.index + Len(m.groups[1]), Len(cs)),
                          pattern, flags, replacement)
             ELSE SubSeq(cs, m.index + Len(m.groups[1]), Len(cs)))

\* lines 483-540: one transform of applyTransforms, applied to the value held in result
applyTransform(value, transform) ==
    LET params == transform.params
        type == transform.type.s
    IN
    CASE type = <<"trim">> -> Str(Trim(String(value)))
      [] type = <<"lowercase">> -> Str(toLowerCase(String(value)))
      [] type = <<"uppercase">> -> Str(toUpperCase(String(value)))
      [] type = <<"replace">> ->
            LET pattern == String(params.pattern)
                flags == IF Truthy(params.flags) THEN String(params.flags) ELSE <<"g">>
                replacement == IF Truthy(params.replacement)
                               THEN String(params.replacement)
                               ELSE <<>>
            IN  IF RegExpCompiles(pattern) /\ FlagsValid(flags)
                THEN Str(replace(String(value), pattern, flags, replacement))
                ELSE value
      [] type = <<"regex">> ->
            LET pattern == String(params.pattern)
                group == IF Truthy(params.group) THEN params.group.n ELSE 0
            IN  IF RegExpCompiles(pattern)
                THEN LET match == exec(pattern, String(value), FALSE) IN
                     IF match.found /\ group >= 0 /\ group + 1 <= Len(match.groups)
                     THEN Str(match.groups[group + 1])
                     ELSE value
                ELSE value
      [] type = <<"split">> ->
            LET separator == IF Truthy(params.separator)
                             THEN String(params.separator)
                             ELSE <<",">>
                parts == split(String(value), separator)
            IN  Arr([i \in 1..Len(parts) |-> Str(parts[i])])
      [] type = <<"slice">> ->
            LET start == IF Truthy(params.start) THEN params.start.n ELSE 0
                end == IF params.end.t = "undefined" THEN <<>> ELSE <<params.end.n>>
            IN  Str(slice(String(value), start, end))
      [] type = <<"parseInt">> ->
            LET cleaned == SelectSeq(String(value), LAMBDA c : IsDigit(c) \/ c = "-")
                parsed == parseInt(cleaned)
            IN  IF parsed = NaN THEN Num(0) ELSE parsed
      [] type = <<"parseFloat">> ->
            LET cleaned == SelectSeq(String(value), LAMBDA c : IsDigit(c) \/ c \in {".", "-"})
                parsed == parseFloat(cleaned)
            IN  IF parsed = NaN THEN Num(0) ELSE parsed
      [] OTHER -> value

\* transforms.forEach from the last transform to the first
RECURSIVE applyTransforms_LastFirstMut(_, _)
applyTransforms_LastFirstMut(value, transforms) ==
    IF Len(transforms) = 0 THEN value
    ELSE applyTransforms_LastFirstMut(
             applyTransform(value, transforms[Len(transforms)]),
             SubSeq(transforms, 1, Len(transforms) - 1))

\* lines 476-544: transforms.forEach, the first transform and then the rest
RECURSIVE applyTransforms(_, _)
applyTransforms(value, transforms) ==
    IF Len(transforms) = 0 THEN value
    ELSE applyTransforms(applyTransform(value, Head(transforms)), Tail(transforms))

\* new URL(strValue, window.location.href).href for a reference that is a
\* path, on the page https://example.com/
ResolveURL(strValue) ==
    IF Head(strValue) = "/"
    THEN <<"https://example.com">> \o strValue
    ELSE <<"https://example.com", "/">> \o strValue

\* the parsed number is returned as it is
coerceType_NoGuardMut(value, type) ==
    IF ~Truthy(type) \/ type.s = <<"text">> THEN value
    ELSE parseFloat(SelectSeq(String(value), LAMBDA c : IsDigit(c) \/ c \in {".", "-"}))

\* lines 546-580
coerceType(value, type) ==
    IF ~Truthy(type) \/ type.s = <<"text">> THEN value
    ELSE CASE type.s \in {<<"number">>, <<"currency">>} ->
                LET cleaned == SelectSeq(String(value), LAMBDA c : IsDigit(c) \/ c \in {".", "-"})
                    parsed == parseFloat(cleaned)
                IN  IF parsed = NaN THEN Num(0) ELSE parsed
           [] type.s = <<"date">> ->
                \* the one text of the model the host's date parser accepts
                IF String(value) = <<"2024-01-15">>
                THEN Str(<<"2024-01-15T00:00:00.000Z">>)
                ELSE JsNull
           [] type.s = <<"boolean">> -> Bool(Truthy(value))
           [] type.s = <<"url">> ->
                LET strValue == String(value) IN
                IF Len(strValue) > 0 /\ ~MatchAt(strValue, 1, <<"h", "t", "t", "p">>)
                THEN Str(ResolveURL(strValue))
                ELSE Str(strValue)
           [] OTHER -> value

(***************************************************************************)
(* The document.  An element is [textContent, innerHTML, attributes,       *)
(* children, hasParent, parentChildren]: attributes maps the names of its  *)
(* attributes to their values, children maps a selector to the elements it *)
(* matches below the element, in document order, and parentChildren does   *)
(* so for the element's parent.  A selector is a sequence of tokens; the   *)
(* sibling prefix "~ " is one token.                                       *)
(***************************************************************************)
\* the selectors the page's CSS parser rejects with a SyntaxError
InvalidSelectors == {<<"[[">>}

\* element.querySelectorAll(selector), for a valid selector
querySelectorAll(childrenOf, selector) ==
    IF selector \in DOMAIN childrenOf THEN childrenOf[selector] ELSE <<>>

\* item[key] = value
SetKey(obj, key, value) ==
    IF \E i \in 1..Len(obj.keys) : obj.keys[i] = key
    THEN LET i == CHOOSE k \in 1..Len(obj.keys) : obj.keys[k] = key IN
         [obj EXCEPT !.values[i] = value]
    ELSE [obj EXCEPT !.keys = Append(@, key), !.values = Append(@, value)]

\* field.fallback ?? null
FallbackOrNull_NullMut(field) == JsNull

FallbackOrNull(field) ==
    IF field.fallback.t \in {"undefined", "null"} THEN JsNull ELSE field.fallback

Returns(value) == [raised |-> FALSE, value |-> value]
Raises == [raised |-> TRUE, value |-> JsNull]

\* lines 409-474: extractField; it returns a value or raises
RECURSIVE extractField(_, _)
RECURSIVE extractNested(_, _, _, _)
RECURSIVE extractNestedItems(_, _, _, _)

\* a sub-field that raises gets its own fallback and the next one is evaluated
RECURSIVE extractNested_IsolatedMut(_, _, _, _)
extractNested_IsolatedMut(el, nestedFields, i, nested) ==
    IF i > Len(nestedFields) THEN Returns(nested)
    ELSE LET r == extractField(el, nestedFields[i]) IN
         extractNested_IsolatedMut(el, nestedFields, i + 1,
                                   SetKey(nested, nestedFields[i].name.s,
                                          IF r.raised
                                          THEN FallbackOrNull(nestedFields[i])
                                          ELSE r.value))

\* lines 423-435: nested.forEach from sub-field i on, for the element el
extractNested(el, nestedFields, i, nested) ==
    IF i > Len(nestedFields) THEN Returns(nested)
    ELSE LET r == extractField(el, nestedFields[i]) IN
         IF r.raised THEN Raises
         ELSE extractNested(el, nestedFields, i + 1,
                            SetKey(nested, nestedFields[i].name.s, r.value))

\* lines 422-436: elements.forEach from element j on
extractNestedItems(elements, nestedFields, j, nestedItems) ==
    IF j > Len(elements) THEN Returns(Arr(nestedItems))
    ELSE LET r == extractNested(elements[j], nestedFields, 1, NoItem) IN
         IF r.raised THEN Raises
         ELSE extractNestedItems(elements, nestedFields, j + 1,
                                 Append(nestedItems, r.value))

extractField(container, field) ==
    LET selector == field.selector.s IN
    IF field.nested.t = "array"
    THEN IF selector \in InvalidSelectors THEN Raises
         ELSE extractNestedItems(querySelectorAll(container.children, selector),
                                 field.nested.items, 1, <<>>)
    ELSE
    LET sibling == Len(selector) > 0 /\ Head(selector) = "~ "
        queried == IF sibling THEN Tail(selector) ELSE selector
        asked == ~sibling \/ container.hasParent
        found == IF ~asked THEN <<>>
                 ELSE IF sibling
                 THEN querySelectorAll(container.parentChildren, queried)
                 ELSE querySelectorAll(container.children, queried)
    IN  IF asked /\ queried \in InvalidSelectors THEN Raises
        ELSE IF Len(found) = 0 THEN Returns(FallbackOrNull(field))
        ELSE
        LET element == found[1]
            extracted ==
                IF Truthy(field.attr)
                THEN IF field.attr.s \in DOMAIN element.attributes
                     THEN Str(element.attributes[field.attr.s])
                     ELSE Str(<<>>)
                ELSE IF field.type = Str(<<"html">>)
                THEN Str(element.innerHTML)
                ELSE Str(Trim(element.textContent))
            transformed ==
                IF field.transforms.t = "array"
                THEN applyTransforms(extracted, field.transforms.items)
                ELSE extracted
        IN  Returns(coerceType(transformed, field.type))

(***************************************************************************)
(* The documents and templates of the evaluation runs.                     *)
(***************************************************************************)
MaxContainers == 2

\* an element without attributes or matching descendants, inside a parent
Leaf(text) ==
    [textContent |-> text, innerHTML |-> text, attributes |-> <<>>,
     children |-> <<>>, hasParent |-> TRUE, parentChildren |-> <<>>]

\* the elements a container selector can match: product has a heading, a
\* price, a link and two rows, and its parent also holds a badge; sparse has
\* a heading only; root is the document's root element, without a parent
EngineElements ==
    [product |->
        [textContent |-> <<" ", "W", "i", "d", "g", "e", "t", " ", "$", "1">>,
         innerHTML |-> <<"<h1> Widget </h1>">>,
         attributes |-> <<>>,
         children |->
            (<<"h1">> :> <<Leaf(<<" ", "W", "i", "d", "g", "e", "t", " ">>)>>)
            @@ (<<".price">> :> <<Leaf(<<"$", "1", ",", "2", "3", "4", ".", "5", "6">>)>>)
            @@ (<<"a">> :> <<[Leaf(<<"m", "o", "r", "e">>) EXCEPT
                                !.attributes = (<<"href">> :> <<"/", "p", "/", "1">>)]>>)
            @@ (<<".row">> :>
                  <<[Leaf(<<"a", "1">>) EXCEPT
                        !.children = (<<".k">> :> <<Leaf(<<"a">>)>>)
                                     @@ (<<".v">> :> <<Leaf(<<"1">>)>>)],
                    [Leaf(<<"b">>) EXCEPT
                        !.children = (<<".k">> :> <<Leaf(<<"b">>)>>)]>>),
         hasParent |-> TRUE,
         parentChildren |-> (<<".badge">> :> <<Leaf(<<"N", "e", "w">>)>>)],
     sparse |->
        [Leaf(<<"G", "a", "d", "g", "e", "t">>) EXCEPT
            !.children = (<<"h1">> :> <<Leaf(<<"G", "a", "d", "g", "e", "t">>)>>)],
     root |->
        [Leaf(<<"G", "a", "d", "g", "e", "t">>) EXCEPT
            !.children = (<<"h1">> :> <<Leaf(<<"G", "a", "d", "g", "e", "t">>)>>),
            !.hasParent = FALSE]]

\* document.querySelectorAll(container): up to MaxContainers elements in
\* document order; only the first can be the root
Documents ==
    {d \in UNION {[1..n -> {EngineElements.product, EngineElements.sparse,
                            EngineElements.root}] : n \in 0..MaxContainers} :
        \A i \in 2..Len(d) : d[i].hasParent}

\* the fields of the templates: price takes the first group of (\d),(\d+)
\* and then parseInt, reversed the other way round, again is a second field
\* of the name price; nothing matches .stock and .spec; the page refuses
\* the selector [[; features is declared a list and its selector matches
\* the two rows of product
EngineFields ==
    [title |-> TitleField,
     price |->
        [Field("price", ".price") EXCEPT
            !.transforms =
                Arr(<<Transform("regex", [PatternParams(DigitThenRun) EXCEPT
                                             !.group = Num(1)]),
                      Transform("parseInt", NoParams)>>)],
     reversed |->
        [Field("reversed", ".price") EXCEPT
            !.transforms =
                Arr(<<Transform("parseInt", NoParams),
                      Transform("regex", [PatternParams(DigitThenRun) EXCEPT
                                             !.group = Num(1)])>>)],
     again |->
        [Field("price", ".price") EXCEPT
            !.transforms = Arr(<<Transform("parseInt", NoParams)>>)],
     sliced |->
        [Field("first", ".price") EXCEPT
            !.transforms =
                Arr(<<Transform("slice", [NoParams EXCEPT !.present = TRUE,
                                                          !.start = Num(1),
                                                          !.end = Num(2)])>>),
            !.type = Str(<<"number">>)],
     stock |->
        [Field("stock", ".stock") EXCEPT
            !.transforms = Arr(<<Transform("uppercase", NoParams)>>),
            !.type = Str(<<"number">>),
            !.fallback = Str(<<"n", "/", "a">>)],
     flag |-> [Field("flag", ".stock") EXCEPT !.type = Str(<<"boolean">>)],
     badge |->
        [Field("badge", ".badge") EXCEPT
            !.selector = Str(<<"~ ", ".badge">>),
            !.transforms = Arr(<<Transform("lowercase", NoParams)>>),
            !.fallback = Str(<<"n", "o", "n", "e">>)],
     broken |-> [Field("broken", "[[") EXCEPT !.fallback = Str(<<"n", "/", "a">>)],
     beside |-> [Field("beside", "[[") EXCEPT !.selector = Str(<<"~ ", "[[">>)],
     link |->
        [Field("link", "a") EXCEPT !.attr = Str(<<"href">>), !.type = Str(<<"url">>)],
     rows |->
        [Field("rows", ".row") EXCEPT
            !.nested = Arr(<<Field("k", ".k"),
                             [Field("v", ".v") EXCEPT !.fallback = Str(<<"-">>),
                                                      !.type = Str(<<"number">>)]>>),
            !.fallback = Str(<<"n", "o", "n", "e">>)],
     specs |->
        [Field("specs", ".spec") EXCEPT
            !.nested = Arr(<<Field("k", ".k")>>),
            !.fallback = Str(<<"n", "o", "n", "e">>)],
     badRows |->
        [Field("badRows", ".row") EXCEPT
            !.nested = Arr(<<Field("k", ".k"),
                             [Field("x", "[[") EXCEPT
                                 !.fallback = Str(<<"s", "u", "b">>)]>>),
            !.fallback = Str(<<"t", "o", "p">>)],
     features |-> [Field("features", ".row") EXCEPT !.type = Str(<<"list">>)]]

EngineTemplates ==
    {Template(Arr(<<EngineFields.title, EngineFields.price, EngineFields.reversed,
                    EngineFields.sliced>>),
              NoPagination, NoOptions),
     Template(Arr(<<EngineFields.stock, EngineFields.flag, EngineFields.badge,
                    EngineFields.beside, EngineFields.broken, EngineFields.title>>),
              NoPagination, NoOptions),
     Template(Arr(<<EngineFields.rows, EngineFields.specs, EngineFields.badRows,
                    EngineFields.link, EngineFields.title>>),
              NoPagination, NoOptions),
     Template(Arr(<<EngineFields.price, EngineFields.broken, EngineFields.again>>),
              NoPagination, NoOptions),
     Template(Arr(<<EngineFields.features, EngineFields.title>>),
              NoPagination, NoOptions)}

(***************************************************************************)
(* The run of the function given to page.evaluate (lines 375-583), one     *)
(* step per container and per field.  enginePc is "containers" between two *)
(* containers, "fields" inside one and "returned" at the end.              *)
(***************************************************************************)
\* what extractData and extractWithBrowser hold while page.evaluate is pending
orchestrator ==
    <<inputs, environment, session, extraction, final, hasNext, pc, attempt,
      listener, lastError, pending, navigations, delays>>

\* line 360 and 586: the fields handed to the page
safeFields == template.fields.items

\* lines 398-403: the catch of the field loop
Caught_DropMut(obj, field) == obj
Caught_NullMut(obj, field) == SetKey(obj, field.name.s, JsNull)

Caught(obj, field) == SetKey(obj, field.name.s, FallbackOrNull(field))

\* lines 383-384: the next container gets an empty item
BeginContainer ==
    /\ enginePc = "containers"
    /\ containerIdx <= Len(containers)
    /\ item' = NoItem
    /\ fieldIdx' = 1
    /\ enginePc' = "fields"
    /\ UNCHANGED <<orchestrator, previous, containers, results, containerIdx>>

\* lines 395-397: extractField returned for the next field
FieldExtracted ==
    /\ enginePc = "fields"
    /\ fieldIdx <= Len(safeFields)
    /\ LET field == safeFields[fieldIdx]
           r == extractField(containers[containerIdx], field)
       IN  /\ ~r.raised
           /\ item' = SetKey(item, field.name.s, r.value)
    /\ fieldIdx' = fieldIdx + 1
    /\ UNCHANGED <<orchestrator, previous, containers, results, containerIdx, enginePc>>

\* lines 395-403: extractField raised for the next field
FieldRaised ==
    /\ enginePc = "fields"
    /\ fieldIdx <= Len(safeFields)
    /\ LET field == safeFields[fieldIdx]
           r == extractField(containers[containerIdx], field)
       IN  /\ r.raised
           /\ item' = Caught(item, field)
    /\ fieldIdx' = fieldIdx + 1
    /\ UNCHANGED <<orchestrator, previous, containers, results, containerIdx, enginePc>>

\* line 406: the item of the container is complete
PushItem ==
    /\ enginePc = "fields"
    /\ fieldIdx > Len(safeFields)
    /\ results' = Append(results, item)
    /\ containerIdx' = containerIdx + 1
    /\ enginePc' = "containers"
    /\ UNCHANGED <<orchestrator, previous, containers, item, fieldIdx>>

\* line 582
ReturnResults ==
    /\ enginePc = "containers"
    /\ containerIdx > Len(containers)
    /\ enginePc' = "returned"
    /\ UNCHANGED <<orchestrator, previous, containers, results, item, containerIdx, fieldIdx>>

\* line 377: the evaluation starts with no records
FreshResults_KeepMut == results

FreshResults == <<>>

\* lines 374-377: the function is handed to page.evaluate again while the
\* document is as it was; the records of the first evaluation are kept
EvaluateAgain ==
    /\ enginePc = "returned"
    /\ previous = <<>>
    /\ previous' = <<results>>
    /\ results' = FreshResults
    /\ containerIdx' = 1
    /\ enginePc' = "containers"
    /\ UNCHANGED <<orchestrator, containers, item, fieldIdx>>

\* the first page.evaluate of a run is pending: the template passed
\* validateTemplate and the pattern check of extractPage
EngineInit ==
    /\ url \in ValidUrls
    /\ template \in EngineTemplates
    /\ validateTemplate(template) = Returned(<<>>)
    /\ ~HasUnsafePattern(template)
    /\ maxRetriesOpt = <<>>
    /\ hasCallback = FALSE
    /\ aborted = FALSE
    /\ overBudget = FALSE
    /\ pc = "evaluate"
    /\ attempt = 1
    /\ browser = "open"
    /\ page = "open"
    /\ listener = TRUE
    /\ lastError = NoError
    /\ pending = NoCompletion
    /\ allData = <<>>
    /\ pageCount = 0
    /\ outcome = "running"
    /\ result = <<>>
    /\ thrown = NoError
    /\ launched = 1
    /\ closed = 0
    /\ navigations = 1
    /\ evaluations = 1
    /\ cbLog = <<>>
    /\ delays = <<>>
    /\ abortedAt = ""
    /\ hasNext = "unset"
    /\ containers \in Documents
    /\ results = <<>>
    /\ item = NoItem
    /\ containerIdx = 1
    /\ fieldIdx = 0
    /\ enginePc = "containers"
    /\ previous = <<>>
    /\ call = NoCall
    /\ ret = <<>>

EngineNext ==
    \/ BeginContainer
    \/ FieldExtracted
    \/ FieldRaised
    \/ PushItem
    \/ ReturnResults
    \/ EvaluateAgain

EngineSpec == EngineInit /\ [][EngineNext]_vars

(***************************************************************************)
(* Calls of functions on their own: validateUrl (extractor.ts),            *)
(* isRegexSafe (validator.ts), escapeCsv of the CSV formatter (index.ts)   *)
(* and, of the functions page.evaluate runs in the page, applyTransforms   *)
(* and coerceType on a text.  A CSV value is a sequence of characters.     *)
(***************************************************************************)
MaxCsvLen == 2
MaxTextLen == 3

\* value.replace(/"/g, '""')
RECURSIVE DoubleQuotes(_)
DoubleQuotes(value) ==
    IF Len(value) = 0 THEN <<>>
    ELSE (IF Head(value) = "\"" THEN <<"\"", "\"">> ELSE <<Head(value)>>)
         \o DoubleQuotes(Tail(value))

\* the value is never given the apostrophe
escapeCsv_NoPrefixMut(value) ==
    IF \E i \in 1..Len(value) : value[i] \in {",", "\"", "\n", "'"}
    THEN <<"\"">> \o DoubleQuotes(value) \o <<"\"">>
    ELSE value

escapeCsv(value) ==
    LET prefixed == IF Len(value) > 0 /\ Head(value) \in {"=", "+", "-", "@", "\t", "\r"}
                    THEN <<"'">> \o value
                    ELSE value
    IN  IF \E i \in 1..Len(prefixed) : prefixed[i] \in {",", "\"", "\n", "'"}
        THEN <<"\"">> \o DoubleQuotes(prefixed) \o <<"\"">>
        ELSE prefixed

\* the arguments of the calls: CSV values up to MaxCsvLen characters over
\* the characters escapeCsv tells apart and a plain letter;
\* patterns that are plain, catalogued as dangerous, refused by the RegExp
\* constructor, and of REGEX_MAX_LENGTH characters and one more; urls with
\* and without a scheme, padded with white space, empty and unparsable, and
\* values that are no string; texts up to MaxTextLen characters over digits,
\* the sign, the dot and characters the numeric conversions strip, each
\* given to the parseInt and parseFloat transforms and to the number and
\* currency coercions
Calls ==
    {[fn |-> "applyTransforms",
      arg |-> [value |-> Str(v), transforms |-> <<Transform(type, NoParams)>>]] :
        v \in UNION {[1..n -> {"0", "7", "-", ".", "$", " "}] : n \in 0..MaxTextLen},
        type \in {"parseInt", "parseFloat"}}
    \cup
    {[fn |-> "coerceType", arg |-> [value |-> Str(v), type |-> Str(<<type>>)]] :
        v \in UNION {[1..n -> {"0", "7", "-", ".", "$", " "}] : n \in 0..MaxTextLen},
        type \in {"number", "currency"}}
    \cup
    {[fn |-> "escapeCsv", arg |-> v] :
        v \in UNION {[1..n -> {"=", "+", "-", "@", "\t", "\r", ",", "\"", "\n", "'", "a"}] :
                        n \in 0..MaxCsvLen}}
    \cup
    {[fn |-> "isRegexSafe", arg |-> p] :
        p \in {<<"\\", "d", "+">>, <<"a">>, <<>>, DigitThenRun,
               DangerousPattern, <<"(", ".", "+", ")", "+">>,
               <<"x", "(", ".", "*", ")", "+", "y">>,
               <<"(", "a", "+", ")", "+">>, <<"(", "a", "*", ")", "*">>,
               <<"(", "[", "a", "]", "+", ")", "+">>,
               <<"(">>, <<"[", "a">>, <<"a", ")">>, <<"*">>,
               [i \in 1..REGEX_MAX_LENGTH |-> "a"],
               [i \in 1..(REGEX_MAX_LENGTH + 1) |-> "a"],
               DangerousPattern \o [i \in 1..(REGEX_MAX_LENGTH - 5) |-> "a"],
               DangerousPattern \o [i \in 1..(REGEX_MAX_LENGTH - 4) |-> "a"],
               <<"(">> \o [i \in 1..(REGEX_MAX_LENGTH - 1) |-> "a"],
               <<"(">> \o [i \in 1..REGEX_MAX_LENGTH |-> "a"]}}
    \cup
    {[fn |-> "validateUrl", arg |-> u] :
        u \in Urls \cup
              {Undefined, Num(5), Str(<<" ", "\t">>),
               Str(<<" ", "example.com", " ">>),
               Str(<<"http://", "example.com">>),
               Str(<<"https://", "example.com", "/", "path">>),
               Str(<<" ", " ", "https://", "example.com", " ", " ">>),
               Str(<<"HTTPS://", "Example.com">>),
               Str(<<"example.com", "/", "path", "?q=test">>),
               Str(<<"https://">>),
               Str(<<" ", "not", " ", "valid", ":", ":", " ">>)}}

\* what a call of one of these functions leaves alone
extractionRun ==
    <<url, template, maxRetriesOpt, hasCallback, call, environment, session,
      extraction, final, hasNext, pc, attempt, listener, lastError, pending,
      navigations, delays, engine>>

\* validateUrl(url) returns
ValidateUrlCall ==
    /\ call.fn = "validateUrl"
    /\ ret = <<>>
    /\ ret' = <<validateUrl(call.arg)>>
    /\ UNCHANGED extractionRun

\* isRegexSafe(pattern) returns
IsRegexSafeCall ==
    /\ call.fn = "isRegexSafe"
    /\ ret = <<>>
    /\ ret' = <<isRegexSafe(call.arg)>>
    /\ UNCHANGED extractionRun

\* escapeCsv(value) returns
EscapeCsvCall ==
    /\ call.fn = "escapeCsv"
    /\ ret = <<>>
    /\ ret' = <<escapeCsv(call.arg)>>
    /\ UNCHANGED extractionRun

\* applyTransforms(value, transforms) returns
ApplyTransformsCall ==
    /\ call.fn = "applyTransforms"
    /\ ret = <<>>
    /\ ret' = <<applyTransforms(call.arg.value, call.arg.transforms)>>
    /\ UNCHANGED extractionRun

\* coerceType(value, type) returns
CoerceTypeCall ==
    /\ call.fn = "coerceType"
    /\ ret = <<>>
    /\ ret' = <<coerceType(call.arg.value, call.arg.type)>>
    /\ UNCHANGED extractionRun

LibraryInit ==
    /\ url \in ValidUrls
    /\ template = Template(Arr(<<TitleField>>), NoPagination, NoOptions)
    /\ maxRetriesOpt = <<>>
    /\ hasCallback = FALSE
    /\ aborted = FALSE
    /\ call \in Calls
    /\ ret = <<>>
    /\ Idle

LibraryNext ==
    \/ ValidateUrlCall
    \/ IsRegexSafeCall
    \/ EscapeCsvCall
    \/ ApplyTransformsCall
    \/ CoerceTypeCall

LibrarySpec == LibraryInit /\ [][LibraryNext]_vars

\* the steps extractData takes itself; the abort signal and the passing of
\* the overall time budget are the environment's
Progress == Next /\ UNCHANGED <<aborted, overBudget>>

\* every awaited provider call and every delay settles, and the program
\* then runs on
FairSpec == Spec /\ WF_vars(Progress)

(***************************************************************************)
(* The claims.                                                             *)
(***************************************************************************)
Done == outcome # "running"
Raised(code) == outcome = "raised" /\ thrown.code = code

\* the positions of the pagination step, after a page and before the next
PaginationPcs == {"findNext", "click", "pagWait", "loadState"}

\* the positions of a run at which work on the page or a back-off is in flight
InFlightPcs ==
    {"goto", "detect", "waitSel", "waitMs", "evaluate", "findNext", "click",
     "pagWait", "loadState", "delay"}

\* C1: when extractData has returned or raised, every browser it launched
\* has been closed, on every exit path.
C1_SessionsClosedAtExit == Done => (launched = closed /\ browser # "open")

\* a run that raised after a retried attempt and a cancellation, both
\* browsers closed
C1_Witness ==
    /\ outcome = "raised"
    /\ launched = 2
    /\ closed = 2
    /\ aborted

\* C2: at most one browser is open at any time, and none is open when the
\* next attempt is about to launch its own.
C2_AtMostOneSession ==
    /\ launched - closed \in {0, 1}
    /\ (pc \in {"loopHead", "launch"} => launched = closed)

\* the second attempt is about to launch, the first attempt's browser closed
C2_Witness == pc = "launch" /\ attempt = 2 /\ launched = 1 /\ closed = 1

\* C3 as stated: extractData raises only for failures that occur before the
\* first page has been extracted.
C3_RaisesOnlyBeforeFirstPage == outcome = "raised" => pageCount = 0

\* C3 amended: extractData raises only while no record has been collected
\* (which can be after pages that gave no records); once a record is held,
\* every failure ends the run by returning the records collected so far.
C3_RaisesOnlyWithNoRecords ==
    /\ outcome = "raised" => Len(allData) = 0
    /\ (Done /\ Len(allData) > 0) => (outcome = "returned" /\ result = allData)

\* the second page's evaluation failed after the first page gave records,
\* and the run returned them
C3_Witness ==
    /\ outcome = "returned"
    /\ Len(result) > 0
    /\ evaluations = 2
    /\ pageCount = 1

C5_AbortEndsCancelledOrReturns ==
    (Done /\ abortedAt \in InFlightPcs) =>
        IF Len(allData) > 0
        THEN outcome = "returned" /\ result = allData
        ELSE outcome = "raised" => thrown.code = "CANCELLED"

\* C6 as stated: an abort that fires while a page operation is in flight
\* leaves that operation's page alone.
C6_AbortLeavesPageAlone ==
    [][(~aborted /\ aborted' /\ pc \in {"goto", "evaluate", "click"})
          => page' = page]_vars

\* a CANCELLED error is in flight or raised
CancelledInFlight == pending.err.code = "CANCELLED" \/ thrown.code = "CANCELLED"

\* the positions at which the signal's flag is read
CheckPoints == {"start", "pageTop", "catch", "delay"}

\* C6 amended: an abort that fires while the abort handler is registered
\* closes the attempt's page at once, so the operation in flight can be
\* interrupted; a CANCELLED error is created only at a check point (the
\* pre-flight check, the check before a page, the back-off delay).
C6_AbortClosesPageCancelAtCheckPoints ==
    [][/\ (~aborted /\ aborted' /\ listener) => (page' = "closed" /\ pc' = pc)
       /\ (~CancelledInFlight /\ CancelledInFlight') => pc \in CheckPoints]_vars

\* the signal fired during page.evaluate and the handler closed the page
C6_Witness == pc = "evaluate" /\ abortedAt = "evaluate" /\ page = "closed"

\* C7: the pre-flight checks come in the order url, template, cancellation,
\* each raising its own kind, and no browser is launched unless all pass.
C7_PreflightOrder ==
    /\ (~validateUrl(url).valid /\ pc # "start")
          => (Raised("INVALID_URL") /\ launched = 0)
    /\ (validateUrl(url).valid /\ template \in InvalidTemplates /\ pc # "start")
          => (Raised("INVALID_TEMPLATE") /\ launched = 0)
    /\ (validateUrl(url).valid /\ template \in ValidTemplates
          /\ abortedAt = "before" /\ pc # "start")
          => (Raised("CANCELLED") /\ launched = 0)

\* C8: the browsers launched and the navigations started never exceed
\* maxRetries.
C8_AtMostMaxRetriesAttempts ==
    /\ launched <= maxRetries
    /\ navigations <= maxRetries
    /\ (pc \notin {"start", "done", "loopHead"} => attempt <= maxRetries)

\* the default of three attempts used up, each with a navigation
C8_Witness ==
    /\ maxRetriesOpt = <<>>
    /\ launched = MAX_RETRIES
    /\ navigations = MAX_RETRIES
    /\ outcome = "raised"

\* C9 as stated: EXTRACTION_FAILED is raised only after maxRetries attempts
\* have each failed.
C9_OnlyWhenBudgetExhausted ==
    Raised("EXTRACTION_FAILED") =>
        (attempt = maxRetries /\ thrown.attempts = maxRetries /\ ~thrown.recoverable)

\* C9 amended: EXTRACTION_FAILED is raised when an attempt ends with an
\* error that is no non-recoverable ExtractionError and either maxRetries
\* attempts have been made or the error's message is not in the transient
\* catalogue (then after fewer attempts, even the first); it is
\* non-recoverable and carries the number of attempts made.
C9_ExtractionFailed ==
    Raised("EXTRACTION_FAILED") =>
        /\ ~thrown.recoverable
        /\ thrown.attempts = attempt
        /\ attempt <= maxRetries
        /\ ~(lastError.isEE /\ ~lastError.recoverable)
        /\ (attempt = maxRetries \/ ~isRetryableError(lastError.msg))

\* raised after two attempts that both failed with a transient error
C9_Witness ==
    /\ Raised("EXTRACTION_FAILED")
    /\ thrown.attempts = 2
    /\ maxRetries = 2
    /\ isRetryableError(lastError.msg)

C11_SelectorTimeoutIsTerminal ==
    [][LET err == ExtractionError(
                      <<"Selector not found within ms: ">>
                          \o template.options.waitForSelector.s,
                      "SELECTOR_TIMEOUT", FALSE)
       IN  /\ (pc = "waitSel" /\ pc' # "waitSel")
                => (\/ pc' \in {"waitMs", "budget"}
                    \/ /\ pending'.err = err
                       /\ ~pending'.err.recoverable
                       /\ evaluations' = 0
                       /\ pageCount' = 0)
           /\ (pending.err.code = "SELECTOR_TIMEOUT")
                => (/\ attempt' = attempt
                    /\ evaluations' = 0
                    /\ pc' \in {"finally", "closing", "done"}
                    /\ pending' = [pending EXCEPT !.type = "throw"]
                    /\ (pc' = "done" => (outcome' = "raised" /\ thrown' = pending.err)))
      ]_vars

\* the wait failed in the second attempt and the caller got SELECTOR_TIMEOUT
C11_Witness ==
    /\ Raised("SELECTOR_TIMEOUT")
    /\ Includes(thrown.msg, ".ready")
    /\ attempt = 2
    /\ attempt < maxRetries
    /\ ~aborted

\* C12: the blocking-content detection never ends an attempt: however
\* detectBlockingContent ends while the signal is not aborted, the run goes
\* on to the readiness wait, the settle delay or the budget check.
C12_DetectionNeverAborts ==
    [][(pc = "detect" /\ ~aborted')
          => pc' \in {"detect", "waitSel", "waitMs", "budget"}]_vars

\* C13 as stated: whenever the overall-timeout budget is found exceeded, at
\* the check before the first page or at the check after a page, the run
\* stops by returning what it has accumulated.
C13_BudgetExceededReturns ==
    [][(pc \in {"budget", "afterPage"} /\ overBudget) => pending'.type = "return"]_vars

\* C13 amended: the budget runs from the entry of extractData and is never
\* restarted by a new attempt.  Found exceeded at the check before the first
\* page, the attempt raises a non-recoverable OVERALL_TIMEOUT, which reaches
\* the caller without a further attempt; found exceeded at the check after a
\* page, the attempt returns the records accumulated so far (possibly none).
C13_BudgetBeforeFirstPageRaises ==
    [][/\ overBudget => overBudget'
       /\ (pc = "budget" /\ overBudget)
            => (/\ pending'.type = "error"
                /\ pending'.err.code = "OVERALL_TIMEOUT"
                /\ pending'.err.isEE
                /\ ~pending'.err.recoverable)
       /\ (pc = "budget" /\ ~overBudget) => pc' = "pageTop"
       /\ (pc = "afterPage" /\ overBudget)
            => (pending'.type = "return" /\ allData' = allData)
       /\ (pending.err.code = "OVERALL_TIMEOUT")
            => (/\ attempt' = attempt
                /\ pc' \in {"finally", "closing", "done"}
                /\ (pc' = "done" => (outcome' = "raised" /\ thrown' = pending.err)))
       /\ (pending.type = "return")
            => (/\ allData' = allData
                /\ (pc' = "done" => (outcome' = "returned" /\ result' = allData)))
      ]_vars

\* the budget ran out during a retried run and the second attempt raised
\* OVERALL_TIMEOUT at its check before the first page
C13_Witness ==
    /\ Raised("OVERALL_TIMEOUT")
    /\ attempt = 2
    /\ Len(delays) = 1
    /\ ~aborted

\* C14: when page.$ finds no next control after a page, the attempt stops
\* paginating without an error: no further page is evaluated, no further
\* attempt starts, and extractData returns the records collected so far,
\* also when there are none.
C14_NoNextControlReturns ==
    [][/\ (hasNext # "absent" /\ hasNext' = "absent")
            => (/\ pc = "findNext"
                /\ pageCount >= 1
                /\ pending'.type = "return"
                /\ allData' = allData)
       /\ (hasNext = "absent")
            => (/\ hasNext' = "absent"
                /\ pending'.type = "return"
                /\ evaluations' = evaluations
                /\ allData' = allData
                /\ attempt' = attempt
                /\ (pc' = "done" => (outcome' = "returned" /\ result' = allData)))
      ]_vars

\* the first page gave no record, the next control was absent, and the run
\* returned the empty list
C14_Witness ==
    /\ outcome = "returned"
    /\ hasNext = "absent"
    /\ pageCount = 1
    /\ result = <<>>
    /\ ~aborted

\* C15: a failure of locating the next control, of clicking it or of the
\* delay after the click never raises and never starts a new attempt: the
\* attempt stops paginating and the records gathered so far are returned.
\* The wait for network idle after the click cannot end the attempt:
\* pagination goes on to the next page however it settles.
C15_PaginationFailureReturns ==
    [][/\ (pc \in {"findNext", "click", "pagWait"} /\ pc' # pc)
            => (/\ pageCount >= 1
                /\ allData' = allData
                /\ attempt' = attempt
                /\ \/ (pc = "findNext" /\ pc' = "click")
                   \/ (pc = "click" /\ pc' = "pagWait")
                   \/ (pc = "pagWait" /\ pc' = "loadState")
                   \/ (pc' = "finally" /\ pending'.type = "return"))
       /\ (pc = "loadState" /\ pc' # pc)
            => (pc' = "pageTop" /\ pending' = pending /\ allData' = allData)
       /\ (pc = "finally" /\ pending.type = "return")
            => (/\ attempt' = attempt
                /\ pc' \in {"closing", "done"}
                /\ result' = IF pc' = "done" THEN allData ELSE result)
      ]_vars

\* the next control was found, clicking it (or the delay after it) failed,
\* and the run returned the record of the first page
C15_Witness ==
    /\ outcome = "returned"
    /\ hasNext = "present"
    /\ evaluations = 1
    /\ Len(result) = 1
    /\ ~aborted
    /\ ~overBudget
    /\ ~hasCallback

\* C16: within one attempt page.evaluate is called at most maxPages times
\* (DEFAULTS.MAX_PAGES when the template gives none), whatever page.$ finds
\* for the next control; without a pagination config it is called at most
\* once, and exactly once in an attempt that returns.
C16_AtMostMaxPagesEvaluations ==
    /\ evaluations <= maxPages
    /\ pageCount <= evaluations
    /\ ~template.pagination.present
          => (evaluations <= 1 /\ (outcome = "returned" => evaluations = 1))

\* the next control was there on every page and the attempt stopped at the
\* cap, having evaluated maxPages pages
C16_Witness ==
    /\ outcome = "returned"
    /\ maxPages = MaxPagesBound
    /\ evaluations = MaxPagesBound
    /\ pageCount = MaxPagesBound
    /\ ~aborted
    /\ ~overBudget

(***************************************************************************)
(* C17: every record the evaluation produces has exactly the names of the  *)
(* template's fields as its keys, each once, whatever fields raise or      *)
(* match nothing; fields that share a name share the key.                  *)
(***************************************************************************)
C17_RecordsHaveTheFieldsAsKeys ==
    \A c \in 1..Len(results) :
        LET keys == results[c].keys IN
        /\ {keys[k] : k \in 1..Len(keys)}
             = {safeFields[i].name.s : i \in 1..Len(safeFields)}
        /\ \A k, l \in 1..Len(keys) : keys[k] = keys[l] => k = l
        /\ Len(results[c].values) = Len(keys)

\* two records of a template with a field that raises and one that matches
\* nothing have been returned
C17_Witness ==
    /\ enginePc = "returned"
    /\ Len(results) = 2
    /\ \E i, j \in 1..Len(safeFields) :
          /\ extractField(containers[1], safeFields[i]).raised
          /\ safeFields[j] = EngineFields.stock

(***************************************************************************)
(* C18: a field whose selector matches no element below the container (or, *)
(* for a sibling selector, below the container's parent, if it has one)    *)
(* gets exactly its fallback, or null without one: no transform, no        *)
(* coercion and no raise.  As stated for every field it fails for a nested *)
(* field, whose value is then the empty list.                              *)
(***************************************************************************)
C18_NoMatchGivesFallback ==
    [][\A i \in 1..Len(safeFields) :
          LET field == safeFields[i]
              container == containers[containerIdx]
              selector == field.selector.s
              sibling == Head(selector) = "~ "
              matched ==
                  IF sibling
                  THEN IF container.hasParent
                       THEN querySelectorAll(container.parentChildren, Tail(selector))
                       ELSE <<>>
                  ELSE querySelectorAll(container.children, selector)
              accepted ==
                  IF sibling
                  THEN ~container.hasParent \/ Tail(selector) \notin InvalidSelectors
                  ELSE selector \notin InvalidSelectors
              k == CHOOSE k \in 1..Len(item'.keys) : item'.keys[k] = field.name.s
          IN  (/\ enginePc = "fields"
               /\ fieldIdx = i
               /\ fieldIdx' = i + 1
               /\ accepted
               /\ Len(matched) = 0)
              => /\ ~extractField(container, field).raised
                 /\ \E key \in 1..Len(item'.keys) : item'.keys[key] = field.name.s
                 /\ item'.values[k]
                      = (IF field.fallback = Undefined THEN JsNull ELSE field.fallback)
    ]_vars

\* the same for the fields that are not nested
C18_NoMatchGivesFallbackUnlessNested ==
    [][\A i \in 1..Len(safeFields) :
          LET field == safeFields[i]
              container == containers[containerIdx]
              selector == field.selector.s
              sibling == Head(selector) = "~ "
              matched ==
                  IF sibling
                  THEN IF container.hasParent
                       THEN querySelectorAll(container.parentChildren, Tail(selector))
                       ELSE <<>>
                  ELSE querySelectorAll(container.children, selector)
              accepted ==
                  IF sibling
                  THEN ~container.hasParent \/ Tail(selector) \notin InvalidSelectors
                  ELSE selector \notin InvalidSelectors
              k == CHOOSE k \in 1..Len(item'.keys) : item'.keys[k] = field.name.s
          IN  (/\ enginePc = "fields"
               /\ fieldIdx = i
               /\ fieldIdx' = i + 1
               /\ field.nested.t # "array"
               /\ accepted
               /\ Len(matched) = 0)
              => /\ ~extractField(container, field).raised
                 /\ \E key \in 1..Len(item'.keys) : item'.keys[key] = field.name.s
                 /\ item'.values[k]
                      = (IF field.fallback = Undefined THEN JsNull ELSE field.fallback)
    ]_vars

\* on the root element, a field with transforms, a type and a fallback whose
\* selector matches nothing and a sibling field without a fallback got
\* their values
C18_Witness ==
    /\ enginePc = "fields"
    /\ containers[containerIdx] = EngineElements.root
    /\ fieldIdx = 5
    /\ safeFields[1] = EngineFields.stock
    /\ safeFields[4] = EngineFields.beside
    /\ item.keys[1] = <<"stock">>
    /\ item.values[1] = Str(<<"n", "/", "a">>)
    /\ item.keys[4] = <<"beside">>
    /\ item.values[4] = JsNull

(***************************************************************************)
(* C19: when the evaluation of a field of the template raises, the field   *)
(* gets its fallback, or null without one, the other keys of the record    *)
(* stay as they are and the next field in declaration order is evaluated   *)
(* next; a record is pushed only after its last field, and the evaluation  *)
(* returns one record for every container.                                 *)
(***************************************************************************)
C19_FieldFailureIsLocal ==
    [][LET field == safeFields[fieldIdx]
           k == CHOOSE k \in 1..Len(item'.keys) : item'.keys[k] = field.name.s
       IN  /\ (/\ enginePc = "fields"
               /\ fieldIdx <= Len(safeFields)
               /\ extractField(containers[containerIdx], field).raised)
              => (/\ \E key \in 1..Len(item'.keys) : item'.keys[key] = field.name.s
                  /\ item'.values[k]
                       = (IF field.fallback = Undefined THEN JsNull ELSE field.fallback)
                  /\ \A key \in 1..Len(item.keys) :
                        /\ item'.keys[key] = item.keys[key]
                        /\ item.keys[key] # field.name.s
                              => item'.values[key] = item.values[key]
                  /\ enginePc' = "fields"
                  /\ fieldIdx' = fieldIdx + 1
                  /\ containerIdx' = containerIdx
                  /\ results' = results)
           /\ (enginePc = "fields" /\ enginePc' # "fields")
              => (/\ fieldIdx > Len(safeFields)
                  /\ results' = Append(results, item)
                  /\ containerIdx' = containerIdx + 1)
           /\ (enginePc' = "returned") => (Len(results') = Len(containers))
    ]_vars

\* two records were returned; in the first the field broken raised and has
\* its fallback, and the field title after it has its text
C19_Witness ==
    /\ enginePc = "returned"
    /\ Len(results) = 2
    /\ containers[1] = EngineElements.product
    /\ Len(safeFields) = 6
    /\ safeFields[5] = EngineFields.broken
    /\ safeFields[6] = EngineFields.title
    /\ results[1].keys[5] = <<"broken">>
    /\ results[1].values[5] = Str(<<"n", "/", "a">>)
    /\ results[1].values[6] = Str(<<"W", "i", "d", "g", "e", "t">>)

(***************************************************************************)
(* C20: the value of a field whose element is found is the coercion, to    *)
(* the field's type, of the result of its transforms applied one after the *)
(* other in declared order, each to the result of the one before: on       *)
(* "$1,234.56" a regex with two groups, group 1, and then parseInt give 1, *)
(* parseInt and then the regex give 123456, and slice(1, 2) with type      *)
(* number gives the number 1.                                              *)
(***************************************************************************)
C20_TransformsInOrderThenCoercion ==
    \A c \in 1..Len(results) :
        LET price == Str(<<"$", "1", ",", "2", "3", "4", ".", "5", "6">>)
            regex == EngineFields.price.transforms.items[1]
            toInt == EngineFields.price.transforms.items[2]
            cut == EngineFields.sliced.transforms.items[1]
        IN  (/\ containers[c] = EngineElements.product
             /\ safeFields = <<EngineFields.title, EngineFields.price,
                               EngineFields.reversed, EngineFields.sliced>>)
            => /\ results[c].keys = <<<<"title">>, <<"price">>, <<"reversed">>, <<"first">>>>
               /\ results[c].values[2] = Num(1)
               /\ results[c].values[2] = applyTransform(applyTransform(price, regex), toInt)
               /\ applyTransform(price, regex) = Str(<<"1">>)
               /\ results[c].values[3] = Num(123456)
               /\ results[c].values[3] = applyTransform(applyTransform(price, toInt), regex)
               /\ results[c].values[4] = Num(1)
               /\ results[c].values[4]
                    = coerceType(applyTransform(price, cut), Str(<<"number">>))
               /\ applyTransform(price, cut) = Str(<<"1">>)
               /\ applyTransform(coerceType(price, Str(<<"number">>)), cut) = Str(<<"2">>)

\* a container with the price "$1,234.56" gave a record of the template
\* with the three price fields
C20_Witness ==
    /\ enginePc = "returned"
    /\ Len(results) = 2
    /\ containers[2] = EngineElements.product
    /\ Len(safeFields) = 4
    /\ safeFields[2] = EngineFields.price
    /\ results[2].values[2] = Num(1)

C22_ValidateTemplateNeverThrows ==
    (pc = "done" /\ validateUrl(url).valid) =>
        /\ ~validateTemplate(template).threw
        /\ thrown # RawError(<<"TypeError">>)

\* the messages of a list of validation errors
Messages(errs) == {errs[i][1] : i \in 1..Len(errs)}

\* the three top-level messages are in errs exactly when their property is
\* missing or of the wrong type, and no other message is when everything
\* else about tmpl is valid
TopLevelMessagesMatch(tmpl, errs) ==
    /\ "Template must have a name (string)" \in Messages(errs)
          <=> (~Truthy(tmpl.name) \/ tmpl.name.t # "string")
    /\ "Template must have a container selector (string)" \in Messages(errs)
          <=> (~Truthy(tmpl.container) \/ tmpl.container.t # "string")
    /\ "Template must have at least one field" \in Messages(errs)
          <=> (tmpl.fields.t # "array" \/ Len(tmpl.fields.items) = 0)
    /\ [tmpl EXCEPT !.name = Str(<<"Products">>), !.container = Str(<<".item">>),
                    !.fields = IF @.t # "array" \/ Len(@.items) = 0
                               THEN Arr(<<TitleField>>) ELSE @] \in ValidTemplates
          => Messages(errs) \subseteq
                {"Template must have a name (string)",
                 "Template must have a container selector (string)",
                 "Template must have at least one field"}
    /\ tmpl \in ValidTemplates => errs = <<>>

\* C23: for every template object that reaches validation, validateTemplate
\* returns a list holding the name, container and at-least-one-field
\* messages exactly when name or container is missing or no string, or
\* fields is missing, no list or empty; nothing else is reported about an
\* otherwise valid template; the list is what INVALID_TEMPLATE carries.
C23_TopLevelMessages ==
    (pc = "done" /\ validateUrl(url).valid /\ template.kind = "object") =>
        /\ ~validateTemplate(template).threw
        /\ TopLevelMessagesMatch(template, validateTemplate(template).errors)
        /\ template \notin ValidTemplates =>
              (Raised("INVALID_TEMPLATE")
                 /\ thrown.errors = validateTemplate(template).errors)

\* C23 for the templates on which validateTemplate returns
C23_TopLevelMessagesOfLists ==
    (pc = "done" /\ validateUrl(url).valid /\ template.kind = "object"
       /\ ~validateTemplate(template).threw) =>
        /\ TopLevelMessagesMatch(template, validateTemplate(template).errors)
        /\ template \notin ValidTemplates =>
              (Raised("INVALID_TEMPLATE")
                 /\ thrown.errors = validateTemplate(template).errors)

\* the fields of a list and of the nested lists below it, each with its
\* position (the indices that lead to it)
RECURSIVE FieldsIn(_, _)
FieldsIn(list, pos) ==
    IF list.t # "array" THEN {}
    ELSE UNION {{<<pos \o <<i>>, list.items[i]>>} \cup
                   (IF list.items[i].kind = "null" THEN {}
                    ELSE FieldsIn(list.items[i].nested, pos \o <<i>>))
                : i \in 1..Len(list.items)}

\* the transforms of the fields fs, each with its field's position and its index
TransformsIn(fs) ==
    UNION {IF f[2].kind = "null" \/ f[2].transforms.t # "array" THEN {}
           ELSE {<<f[1], k, f[2].transforms.items[k]>> :
                    k \in 1..Len(f[2].transforms.items)}
           : f \in fs}

\* how many errors of errs carry the message
Count(errs, message) == Cardinality({i \in 1..Len(errs) : errs[i][1] = message})

NotAString(v) == ~Truthy(v) \/ v.t # "string"

GivenButNoNumberFrom(v, least) == v.t # "undefined" /\ (v.t # "number" \/ v.n < least)

\* the transform has a known type
Typed(tr) == tr.kind # "null" /\ ~NotAString(tr.type) /\ tr.type.s \in TRANSFORM_TYPES

\* errs holds one error for every rule that tmpl, one of its fields at any
\* depth, one of their transforms, its pagination or its options breaks
EveryViolationReported(tmpl, errs) ==
    /\ NotAString(tmpl.name) => Count(errs, "Template must have a name (string)") = 1
    /\ NotAString(tmpl.container)
          => Count(errs, "Template must have a container selector (string)") = 1
    /\ (tmpl.fields.t # "array" \/ Len(tmpl.fields.items) = 0)
          => Count(errs, "Template must have at least one field") = 1
    /\ Count(errs, "Field must have a name (string)") =
          Cardinality({f \in FieldsIn(tmpl.fields, <<>>) :
                          f[2].kind = "null" \/ NotAString(f[2].name)})
    /\ Count(errs, "Field must have a selector (string)") =
          Cardinality({f \in FieldsIn(tmpl.fields, <<>>) :
                          f[2].kind = "null" \/ NotAString(f[2].selector)})
    /\ Count(errs, "Field has invalid type") =
          Cardinality({f \in FieldsIn(tmpl.fields, <<>>) :
                          /\ f[2].kind # "null"
                          /\ f[2].type.t # "undefined"
                          /\ ~(f[2].type.t = "string" /\ f[2].type.s \in FIELD_TYPES)})
    /\ Count(errs, "Field transforms must be an array") =
          Cardinality({f \in FieldsIn(tmpl.fields, <<>>) :
                          f[2].kind # "null" /\ f[2].transforms.t = "other"})
    /\ Count(errs, "Field nested must be an array") =
          Cardinality({f \in FieldsIn(tmpl.fields, <<>>) :
                          f[2].kind # "null" /\ f[2].nested.t = "other"})
    /\ Count(errs, "Transform must have a type (string)") =
          Cardinality({x \in TransformsIn(FieldsIn(tmpl.fields, <<>>)) :
                          x[3].kind = "null" \/ NotAString(x[3].type)})
    /\ Count(errs, "Transform has invalid type") =
          Cardinality({x \in TransformsIn(FieldsIn(tmpl.fields, <<>>)) :
                          /\ x[3].kind # "null"
                          /\ ~NotAString(x[3].type)
                          /\ x[3].type.s \notin TRANSFORM_TYPES})
    /\ Count(errs, "Transform requires params.pattern (string)") =
          Cardinality({x \in TransformsIn(FieldsIn(tmpl.fields, <<>>)) :
                          /\ Typed(x[3])
                          /\ x[3].type.s \in {<<"replace">>, <<"regex">>}
                          /\ (~x[3].params.present \/ NotAString(x[3].params.pattern))})
    /\ Count(errs, "Regex pattern contains potentially dangerous pattern")
         + Count(errs, "Regex pattern is invalid")
         + Count(errs, "Regex pattern exceeds maximum length") >=
          Cardinality({x \in TransformsIn(FieldsIn(tmpl.fields, <<>>)) :
                          /\ Typed(x[3])
                          /\ x[3].type.s \in {<<"replace">>, <<"regex">>}
                          /\ x[3].params.present
                          /\ ~NotAString(x[3].params.pattern)
                          /\ ~isRegexSafe(x[3].params.pattern.s)})
    /\ Count(errs, "Transform params.separator must be a string") =
          Cardinality({x \in TransformsIn(FieldsIn(tmpl.fields, <<>>)) :
                          /\ Typed(x[3])
                          /\ x[3].type.s = <<"split">>
                          /\ x[3].params.present
                          /\ x[3].params.separator.t \notin {"undefined", "string"}})
    /\ Count(errs, "Transform slice params.start must be a number") =
          Cardinality({x \in TransformsIn(FieldsIn(tmpl.fields, <<>>)) :
                          /\ Typed(x[3])
                          /\ x[3].type.s = <<"slice">>
                          /\ x[3].params.present
                          /\ x[3].params.start.t \notin {"undefined", "number"}})
    /\ Count(errs, "Transform slice params.end must be a number") =
          Cardinality({x \in TransformsIn(FieldsIn(tmpl.fields, <<>>)) :
                          /\ Typed(x[3])
                          /\ x[3].type.s = <<"slice">>
                          /\ x[3].params.present
                          /\ x[3].params.end.t \notin {"undefined", "number"}})
    /\ Count(errs, "Transform regex params.group must be a non-negative number") =
          Cardinality({x \in TransformsIn(FieldsIn(tmpl.fields, <<>>)) :
                          /\ Typed(x[3])
                          /\ x[3].type.s = <<"regex">>
                          /\ x[3].params.present
                          /\ GivenButNoNumberFrom(x[3].params.group, 0)})
    /\ Count(errs, "Pagination must have a nextSelector (string)") =
          (IF tmpl.pagination.present /\ NotAString(tmpl.pagination.nextSelector)
           THEN 1 ELSE 0)
    /\ Count(errs, "Pagination maxPages must be a positive number") =
          (IF tmpl.pagination.present /\ GivenButNoNumberFrom(tmpl.pagination.maxPages, 1)
           THEN 1 ELSE 0)
    /\ Count(errs, "Pagination waitMs must be a non-negative number") =
          (IF tmpl.pagination.present /\ GivenButNoNumberFrom(tmpl.pagination.waitMs, 0)
           THEN 1 ELSE 0)
    /\ Count(errs, "Options timeout must be a non-negative number") =
          (IF tmpl.options.present /\ GivenButNoNumberFrom(tmpl.options.timeout, 0)
           THEN 1 ELSE 0)
    /\ Count(errs, "Options waitMs must be a non-negative number") =
          (IF tmpl.options.present /\ GivenButNoNumberFrom(tmpl.options.waitMs, 0)
           THEN 1 ELSE 0)

\* C24: validation reports every violation: whenever a template object that
\* breaks a rule reaches validation, extractData raises INVALID_TEMPLATE and
\* the error carries one entry for every rule broken, at the top level, in
\* any field, in any transform, in the pagination and in the options.
C24_EveryViolationReported ==
    (pc = "done" /\ validateUrl(url).valid /\ template.kind = "object"
       /\ template \notin ValidTemplates) =>
        /\ Raised("INVALID_TEMPLATE")
        /\ EveryViolationReported(template, thrown.errors)

\* C24 for the templates on which validateTemplate returns
C24_ReturnedListIsComplete ==
    (pc = "done" /\ validateUrl(url).valid /\ template.kind = "object"
       /\ template \notin ValidTemplates /\ ~validateTemplate(template).threw) =>
        /\ Raised("INVALID_TEMPLATE")
        /\ thrown.errors = validateTemplate(template).errors
        /\ EveryViolationReported(template, thrown.errors)

\* C30: the field rules apply at every nesting depth: whenever
\* validateTemplate returns its list, the list holds, for each of the rules
\* on name, selector, type, transforms and nested, one error for every field
\* that breaks it, however deep the field is nested.
C30_SameRulesAtEveryDepth ==
    (pc = "done" /\ Raised("INVALID_TEMPLATE") /\ template.kind = "object") =>
        /\ Count(thrown.errors, "Field must have a name (string)") =
              Cardinality({f \in FieldsIn(template.fields, <<>>) : NotAString(f[2].name)})
        /\ Count(thrown.errors, "Field must have a selector (string)") =
              Cardinality({f \in FieldsIn(template.fields, <<>>) :
                              NotAString(f[2].selector)})
        /\ Count(thrown.errors, "Field has invalid type") =
              Cardinality({f \in FieldsIn(template.fields, <<>>) :
                              /\ f[2].type.t # "undefined"
                              /\ ~(f[2].type.t = "string" /\ f[2].type.s \in FIELD_TYPES)})
        /\ Count(thrown.errors, "Field transforms must be an array") =
              Cardinality({f \in FieldsIn(template.fields, <<>>) :
                              f[2].transforms.t = "other"})
        /\ Count(thrown.errors, "Field nested must be an array") =
              Cardinality({f \in FieldsIn(template.fields, <<>>) : f[2].nested.t = "other"})

\* INVALID_TEMPLATE was raised for a template with a field two levels below
\* a top-level field that has no name, an unknown type and a nested value
\* that is no list, and whose parent breaks rules too
C30_Witness ==
    /\ pc = "done"
    /\ Raised("INVALID_TEMPLATE")
    /\ template.kind = "object"
    /\ \E f \in FieldsIn(template.fields, <<>>) :
          /\ Len(f[1]) = 3
          /\ NotAString(f[2].name)
          /\ f[2].type.t = "string" /\ f[2].type.s \notin FIELD_TYPES
          /\ f[2].nested.t = "other"
    /\ \E f \in FieldsIn(template.fields, <<>>) :
          Len(f[1]) = 2 /\ NotAString(f[2].selector) /\ f[2].transforms.t = "other"
    /\ Count(thrown.errors, "Field must have a name (string)") = 2
    /\ Count(thrown.errors, "Field has invalid type") = 2

\* C28: whenever extractData ends by raising, for any url, template and
\* maxRetries (0 included), the raised value is an ExtractionError of one of
\* the eight kinds.
C28_RaisedValueIsClassified ==
    outcome = "raised" =>
        /\ thrown.isEE
        /\ thrown.code \in {"INVALID_URL", "INVALID_TEMPLATE", "UNSAFE_REGEX",
                            "PAGE_LOAD_FAILED", "SELECTOR_TIMEOUT", "OVERALL_TIMEOUT",
                            "EXTRACTION_FAILED", "CANCELLED"}

\* C28 for a positive maxRetries and a template on which validation returns
C28_ClassifiedWhenAttemptsAreMade ==
    (outcome = "raised" /\ maxRetries >= 1
       /\ (validateUrl(url).valid => ~validateTemplate(template).threw)) =>
        /\ thrown.isEE
        /\ thrown.code \in {"INVALID_URL", "INVALID_TEMPLATE", "UNSAFE_REGEX",
                            "PAGE_LOAD_FAILED", "SELECTOR_TIMEOUT", "OVERALL_TIMEOUT",
                            "EXTRACTION_FAILED", "CANCELLED"}

\* C29: a field declared with type list, whose selector matches elements
\* under the container, yields an array with one value per element matched.
C29_ListFieldYieldsArray ==
    enginePc = "returned" =>
        \A i \in 1..Len(results) : \A k \in 1..Len(safeFields) :
            (/\ safeFields[k].type = Str(<<"list">>)
             /\ safeFields[k].nested.t # "array"
             /\ Len(querySelectorAll(containers[i].children, safeFields[k].selector.s)) > 0)
            =>
                /\ results[i].values[k].t = "array"
                /\ Len(results[i].values[k].items) =
                      Len(querySelectorAll(containers[i].children, safeFields[k].selector.s))

\* C25: isRegexSafe is false for every pattern longer than REGEX_MAX_LENGTH
\* characters, for every pattern the RegExp constructor refuses and for
\* every pattern holding a catalogued nested-quantifier shape; it is true
\* for \d+; a pattern of exactly REGEX_MAX_LENGTH characters that compiles
\* and holds no catalogued shape is safe.
C25_IsRegexSafe ==
    (call.fn = "isRegexSafe" /\ ret # <<>>) =>
        /\ Len(call.arg) > REGEX_MAX_LENGTH => ret[1] = FALSE
        /\ ~RegExpCompiles(call.arg) => ret[1] = FALSE
        /\ (\E i \in 1..Len(call.arg) :
               \/ MatchAt(call.arg, i, <<"(", ".", "*", ")", "+">>)
               \/ MatchAt(call.arg, i, <<"(", ".", "+", ")", "+">>)
               \/ MatchAt(call.arg, i, <<"(", "a", "+", ")", "+">>)
               \/ MatchAt(call.arg, i, <<"(", "a", "*", ")", "*">>)
               \/ MatchAt(call.arg, i, <<"(", "[", "a", "]", "+", ")", "+">>))
              => ret[1] = FALSE
        /\ call.arg = <<"\\", "d", "+">> => ret[1] = TRUE
        /\ (Len(call.arg) <= REGEX_MAX_LENGTH /\ RegExpCompiles(call.arg)
              /\ ~Dangerous(call.arg)) => ret[1] = TRUE

\* a pattern of exactly REGEX_MAX_LENGTH characters was found safe
C25_Witness ==
    /\ call.fn = "isRegexSafe"
    /\ Len(call.arg) = REGEX_MAX_LENGTH
    /\ ret = <<TRUE>>

\* a string of white space only
Blank(s) == \A i \in 1..Len(s) : IsSpace(s[i])

\* C26: validateUrl rejects a value that is no string and an empty or
\* blank string with a message holding "empty"; white space around a
\* non-blank input does not change the result; without an http(s) scheme
\* the result is that of the input with https:// in front; "example.com" gives
\* "https://example.com/"; a rejected non-blank string gets a message
\* starting with "Invalid URL"; valid holds exactly when normalized is
\* present.
C26_ValidateUrl ==
    (call.fn = "validateUrl" /\ ret # <<>>) =>
        /\ ret[1].valid <=> ret[1].normalized # <<>>
        /\ (call.arg.t # "string" \/ Blank(call.arg.s)) =>
              (~ret[1].valid /\ Includes(ret[1].error, "empty"))
        /\ call.arg = Str(<<"example.com">>) =>
              ret[1].normalized = <<"https://", "example.com", "/">>
        /\ call.arg.t = "string" =>
              \A c \in Calls : \A n \in 0..2 : \A m \in 0..2 :
                  \A before \in [1..n -> {" ", "\t"}] : \A after \in [1..m -> {" ", "\t"}] :
                      (c.fn = "validateUrl" /\ c.arg.t = "string" /\ ~Blank(c.arg.s)
                         /\ call.arg.s = before \o c.arg.s \o after)
                      => ret[1] = validateUrl(c.arg)
        /\ (call.arg.t = "string" /\ ~Blank(call.arg.s)
              /\ ~IsSpace(Head(call.arg.s))
              /\ ~IsSpace(call.arg.s[Len(call.arg.s)])
              /\ \A i \in 1..Len(call.arg.s) :
                    call.arg.s[i] \notin {"http://", "https://", "HTTP://", "HTTPS://"})
              => ret[1] = validateUrl(Str(<<"https://">> \o call.arg.s))
        /\ (call.arg.t = "string" /\ ~Blank(call.arg.s) /\ ~ret[1].valid) =>
              Head(ret[1].error) = "Invalid URL"
        /\ call.arg \in {Str(<<"not", " ", "valid", ":", ":">>), Str(<<"https://">>)} =>
              ~ret[1].valid

\* a url with a scheme and white space around it was accepted and normalized
C26_Witness ==
    /\ call.fn = "validateUrl"
    /\ call.arg = Str(<<" ", " ", "https://", "example.com", " ", " ">>)
    /\ ret # <<>>
    /\ ret[1].valid
    /\ ret[1].normalized = <<"https://", "example.com", "/">>

\* the value begins with a character a spreadsheet takes for a formula
Leading(value) == Len(value) > 0 /\ Head(value) \in {"=", "+", "-", "@", "\t", "\r"}

\* how many double quotes the characters hold
Quotes(chars) == Cardinality({i \in 1..Len(chars) : chars[i] = "\""})

\* cell is inner wrapped in double quotes, with every double quote of inner
\* doubled and nothing else changed
Wrapped(cell, inner) ==
    /\ Len(cell) = Len(inner) + Quotes(inner) + 2
    /\ Head(cell) = "\""
    /\ cell[Len(cell)] = "\""
    /\ SelectSeq(SubSeq(cell, 2, Len(cell) - 1), LAMBDA c : c # "\"")
          = SelectSeq(inner, LAMBDA c : c # "\"")
    /\ \A i \in 1..Len(inner) :
          cell[1 + i + Quotes(SubSeq(inner, 1, i - 1))] = inner[i]
    /\ \A i \in 1..Len(inner) :
          inner[i] = "\"" => cell[2 + i + Quotes(SubSeq(inner, 1, i - 1))] = "\""

\* C27 as stated: a value beginning with = + - @ tab or carriage return is
\* emitted with an apostrophe in front and wrapped in double quotes; a value
\* holding a comma, a double quote or a newline is wrapped in double quotes
\* with its quotes doubled; every other value is emitted unchanged.
C27_CsvEscaping ==
    (call.fn = "escapeCsv" /\ ret # <<>>) =>
        /\ Leading(call.arg) => Wrapped(ret[1], <<"'">> \o call.arg)
        /\ (~Leading(call.arg)
              /\ \E i \in 1..Len(call.arg) : call.arg[i] \in {",", "\"", "\n"})
              => Wrapped(ret[1], call.arg)
        /\ (~Leading(call.arg)
              /\ \A i \in 1..Len(call.arg) : call.arg[i] \notin {",", "\"", "\n"})
              => ret[1] = call.arg

\* C27 amended: a value beginning with = + - @ tab or carriage return is
\* emitted with an apostrophe in front and wrapped in double quotes; a value
\* holding a comma, a double quote, a newline or an apostrophe is wrapped in
\* double quotes with its quotes doubled; every other value is emitted
\* unchanged.
C27_CsvEscapingWithApostrophe ==
    (call.fn = "escapeCsv" /\ ret # <<>>) =>
        /\ Leading(call.arg) => Wrapped(ret[1], <<"'">> \o call.arg)
        /\ (~Leading(call.arg)
              /\ \E i \in 1..Len(call.arg) : call.arg[i] \in {",", "\"", "\n", "'"})
              => Wrapped(ret[1], call.arg)
        /\ (~Leading(call.arg)
              /\ \A i \in 1..Len(call.arg) : call.arg[i] \notin {",", "\"", "\n", "'"})
              => ret[1] = call.arg

\* a value beginning with = and holding a double quote was escaped
C27_Witness ==
    /\ call.fn = "escapeCsv"
    /\ call.arg = <<"=", "\"">>
    /\ ret = << <<"\"", "'", "=", "\"", "\"", "\"">> >>

\* C31: the page is handed to the evaluation context only when no transform
\* of the template, in a top-level field or in a nested field at any depth,
\* carries a pattern that isRegexSafe rejects; UNSAFE_REGEX is raised before
\* any evaluation.
C31_EveryPatternIsChecked ==
    /\ pc = "evaluate" =>
          \A x \in TransformsIn(FieldsIn(template.fields, <<>>)) : ~UnsafeTransform(x[3])
    /\ Raised("UNSAFE_REGEX") => evaluations = 0

\* C31 for the transforms of the top-level fields
C31_TopLevelPatternsAreChecked ==
    /\ pc = "evaluate" => ~HasUnsafePattern(template)
    /\ Raised("UNSAFE_REGEX") => (evaluations = 0 /\ HasUnsafePattern(template))
    /\ (pc = "done" /\ evaluations > 0) => ~HasUnsafePattern(template)

\* C32: the k-th delay of a run is waited after failed attempt k, with
\* 1 <= k < maxRetries, and lasts exactly k times the base delay of 1000 ms;
\* no delay follows the last attempt.
C32_LinearBackOff ==
    /\ RETRY_DELAY_MS = 1000
    /\ \A k \in 1..Len(delays) : delays[k] = k * 1000 /\ k < maxRetries
    /\ Len(delays) <= attempt
    /\ Done => \/ attempt = 0
               \/ Len(delays) = attempt - 1
               \/ Len(delays) = attempt /\ Raised("CANCELLED")

C32_Witness ==
    /\ pc = "done"
    /\ maxRetries = 3
    /\ attempt = 3
    /\ delays = <<1000, 2000>>
    /\ Raised("EXTRACTION_FAILED")

\* C33: with a per-page callback, the calls of an attempt are one per
\* extracted page, numbered 1, 2, 3, ... without gaps, each with the records
\* of its page; a call is made in the step that appends the page's records
\* and counts the page, before any pagination step, and a page whose
\* extraction fails causes no call. Without a callback no call is made.
C33_CallbackOncePerPage ==
    /\ [](/\ ~hasCallback => cbLog = <<>>
          /\ hasCallback => Len(cbLog) = pageCount
          /\ \A i \in 1..Len(cbLog) :
                /\ cbLog[i].pageNum = i
                /\ \A j \in 1..Len(cbLog[i].items) : cbLog[i].items[j] = <<i, j>>)
    /\ [][(cbLog' # cbLog /\ cbLog' # <<>>) =>
             /\ hasCallback
             /\ pc = "evaluate"
             /\ pageCount' = pageCount + 1
             /\ Len(allData') >= Len(allData)
             /\ cbLog' = Append(cbLog,
                                [items |-> SubSeq(allData', Len(allData) + 1, Len(allData')),
                                 pageNum |-> pageCount'])
             /\ navigations' = navigations]_vars
    /\ [][(pc = "evaluate" /\ pc' # "evaluate" /\ pageCount' = pageCount) =>
             cbLog' = cbLog]_vars

\* two pages were extracted and delivered, the second with a record
C33_Witness ==
    /\ hasCallback
    /\ pc \in {"afterPage", "finally"}
    /\ Len(cbLog) = 2
    /\ cbLog[2].pageNum = 2
    /\ cbLog[2].items = <<<<2, 1>>>>

\* C34: every extractData call returns or raises, having started at most
\* maxRetries attempts and extracted at most maxPages pages in each, whatever
\* the provider calls answer.
C34_Terminates ==
    /\ <>(pc = "done" /\ Done)
    /\ [](launched <= maxRetries \/ launched = 0)
    /\ [](pc \notin {"start", "loopHead", "done"} => attempt <= maxRetries)
    /\ [](pageCount <= maxPages /\ evaluations <= maxPages)

\* the last allowed page of the last allowed attempt, every earlier attempt
\* having failed transiently
C34_Witness ==
    /\ maxRetries = MAX_RETRIES
    /\ attempt = maxRetries
    /\ template.pagination.present
    /\ pageCount = maxPages
    /\ hasNext = "unset"
    /\ pc = "finally"

\* the characters of a text the numeric conversions keep: digits and "-",
\* and "." unless the conversion is the parseInt transform
Cleaned(c) ==
    IF c.fn = "applyTransforms" /\ c.arg.transforms[1].type.s = <<"parseInt">>
    THEN SelectSeq(c.arg.value.s, LAMBDA ch : IsDigit(ch) \/ ch = "-")
    ELSE SelectSeq(c.arg.value.s, LAMBDA ch : IsDigit(ch) \/ ch \in {".", "-"})

\* C35: the parseInt and parseFloat transforms and the number and currency
\* coercions give a number that is never NaN for every text; a text whose
\* kept characters are none, or signs and dots only, or start with two signs,
\* gives 0, and one whose kept characters are digits gives their value.
C35_NeverNaN ==
    (call.fn \in {"applyTransforms", "coerceType"} /\ ret # <<>>) =>
        /\ ret[1].t = "number"
        /\ ret[1] # NaN
        /\ ret[1].s # <<"NaN">>
        /\ (\A i \in 1..Len(Cleaned(call)) : ~IsDigit(Cleaned(call)[i])) => ret[1] = Num(0)
        /\ (Len(Cleaned(call)) > 1 /\ Cleaned(call)[1] = "-" /\ Cleaned(call)[2] = "-")
              => ret[1] = Num(0)
        /\ (Len(Cleaned(call)) > 0 /\ \A i \in 1..Len(Cleaned(call)) : IsDigit(Cleaned(call)[i]))
              => ret[1] = Num(DigitsVal(Cleaned(call)))

\* the currency coercion of "$-." : nothing parsable is left, and 0 is given
C35_Witness ==
    /\ call.fn = "coerceType"
    /\ call.arg.type = Str(<<"currency">>)
    /\ call.arg.value = Str(<<"$", "-", ".">>)
    /\ ret = <<Num(0)>>

\* the parseInt transform of "-.-" gives 0
C35_WitnessParseInt ==
    /\ call.fn = "applyTransforms"
    /\ call.arg.transforms[1].type.s = <<"parseInt">>
    /\ call.arg.value = Str(<<"-", ".", "-">>)
    /\ ret = <<Num(0)>>

\* C36: a call whose template validateTemplate accepts (it returns no
\* errors) never raises UNSAFE_REGEX.
C36_GuardRejectsNothingValidated ==
    validateTemplate(template) = Returned(<<>>) => ~Raised("UNSAFE_REGEX")

\* C36 for templates whose transforms carry a pattern only where the type
\* is replace or regex
C36_PatternsOnPatternTransforms ==
    (/\ validateTemplate(template) = Returned(<<>>)
     /\ \A x \in TransformsIn(FieldsIn(template.fields, <<>>)) :
           x[3].params.pattern.t = "undefined"
           \/ x[3].type.s \in {<<"replace">>, <<"regex">>})
        => ~Raised("UNSAFE_REGEX")

\* C37: an attempt that has collected a record ends by returning what it
\* collected, and no attempt is started after it: while records are held
\* the attempt number stays, the records stay and only grow, no error is
\* pending and no back-off is waited, and the call ends returned with
\* exactly these records, each of them once.
C37_RecordsEndTheRetries ==
    /\ [](Len(allData) > 0 =>
             /\ pc \notin {"catch", "delay", "loopHead", "launch"}
             /\ pending.type \notin {"error", "throw"}
             /\ pc \in {"finally", "closing", "done"} => pending.type = "return"
             /\ pc = "done" => (outcome = "returned" /\ result = allData)
             /\ \A i, j \in 1..Len(allData) : allData[i] = allData[j] => i = j)
    /\ [][Len(allData) > 0 =>
             /\ attempt' = attempt
             /\ launched' = launched
             /\ delays' = delays
             /\ Len(allData') >= Len(allData)
             /\ SubSeq(allData', 1, Len(allData)) = allData]_vars

\* the second attempt collected a record on its first page, its second
\* page failed, and the call returned that record
C37_Witness ==
    /\ pc = "done"
    /\ outcome = "returned"
    /\ attempt = 2
    /\ launched = 2
    /\ pageCount = 1
    /\ evaluations = 2
    /\ result = <<<<1, 1>>>>

\* the record lists the callback was given, one after the other
RECURSIVE Delivered(_)
Delivered(log) ==
    IF Len(log) = 0 THEN <<>>
    ELSE Delivered(SubSeq(log, 1, Len(log) - 1)) \o log[Len(log)].items

\* C38: with a per-page callback, the records an attempt holds are at every
\* moment the concatenation, in page order, of the lists its callback was
\* given, and the list extractData returns is that concatenation for the
\* attempt that returned, however the attempt ended.
C38_ReturnedIsWhatWasDelivered ==
    hasCallback =>
        /\ allData = Delivered(cbLog)
        /\ outcome = "returned" => result = Delivered(cbLog)

\* a run with a callback returned the records of two pages
C38_Witness ==
    /\ hasCallback
    /\ pc = "done"
    /\ outcome = "returned"
    /\ Len(cbLog) = 2
    /\ cbLog[1].items = <<<<1, 1>>>>
    /\ result = <<<<1, 1>>, <<2, 1>>>>

\* the value a record holds under a key
ValueAt(obj, key) == obj.values[CHOOSE k \in 1..Len(obj.keys) : obj.keys[k] = key]

\* a sub-field without sub-fields of its own whose selector the page refuses
SubFieldRaises(nf) == nf.nested.t # "array" /\ nf.selector.s \in InvalidSelectors

(***************************************************************************)
(* C39: for a nested field whose selector the page accepts: if it matches  *)
(* nothing the field's value is the empty list, whatever its fallback; if  *)
(* it matches and the evaluation of a sub-field raises, the value is the   *)
(* top-level field's fallback, or null, and no sub-record is kept; if no   *)
(* sub-field raises, the value has one sub-record per matched element, in  *)
(* which a sub-field whose selector matches nothing has its own fallback,  *)
(* or null.                                                                *)
(***************************************************************************)
C39_NestedFieldIsNotIsolated ==
    [][LET field == safeFields[fieldIdx]
           els == querySelectorAll(containers[containerIdx].children, field.selector.s)
           subs == field.nested.items
           value == ValueAt(item', field.name.s)
       IN  (/\ enginePc = "fields"
            /\ fieldIdx <= Len(safeFields)
            /\ fieldIdx' = fieldIdx + 1
            /\ field.nested.t = "array"
            /\ field.selector.s \notin InvalidSelectors)
           => /\ \E k \in 1..Len(item'.keys) : item'.keys[k] = field.name.s
              /\ Len(els) = 0 => value = Arr(<<>>)
              /\ (Len(els) > 0 /\ \E n \in 1..Len(subs) : SubFieldRaises(subs[n]))
                    => value = (IF field.fallback = Undefined THEN JsNull ELSE field.fallback)
              /\ (Len(els) > 0 /\ \A n \in 1..Len(subs) : ~SubFieldRaises(subs[n]))
                    => /\ value.t = "array"
                       /\ Len(value.items) = Len(els)
                       /\ \A j \in 1..Len(els), n \in 1..Len(subs) :
                             (/\ subs[n].nested.t # "array"
                              /\ querySelectorAll(els[j].children, subs[n].selector.s) = <<>>)
                             => ValueAt(value.items[j], subs[n].name.s)
                                  = (IF subs[n].fallback = Undefined
                                     THEN JsNull ELSE subs[n].fallback)
    ]_vars

\* product has two rows: badRows, whose sub-field x raises, has the
\* fallback of badRows and not that of x; specs, which matches nothing, is
\* the empty list and not its fallback; rows has two sub-records, the
\* second with the fallback of v, which the second row lacks
C39_Witness ==
    /\ enginePc = "returned"
    /\ Len(results) > 0
    /\ containers[1] = EngineElements.product
    /\ Len(safeFields) = 5
    /\ safeFields[1] = EngineFields.rows
    /\ safeFields[2] = EngineFields.specs
    /\ safeFields[3] = EngineFields.badRows
    /\ ValueAt(results[1], <<"badRows">>) = Str(<<"t", "o", "p">>)
    /\ ValueAt(results[1], <<"specs">>) = Arr(<<>>)
    /\ Len(ValueAt(results[1], <<"rows">>).items) = 2
    /\ ValueAt(ValueAt(results[1], <<"rows">>).items[2], <<"v">>) = Str(<<"-">>)
    /\ ValueAt(ValueAt(results[1], <<"rows">>).items[1], <<"v">>) = Num(1)

====
